---------------------------- MODULE Spec2Model ----------------------------
(***************************************************************************)
(* Jaeum native code generator (src/jaeum/compiler.py) and the x86-64      *)
(* (Win64 ABI) behaviour of the assembly it emits.                         *)
(*                                                                         *)
(* The compiler is modelled as the mutually recursive visit_* methods of   *)
(* class Compiler, threading the Compiler object's fields as a record c.   *)
(* Emitted text lines are modelled as instruction records, one per line.   *)
(* The generated program is then executed instruction by instruction on a  *)
(* machine with registers, a word-addressed stack/heap and global cells.   *)
(***************************************************************************)
EXTENDS Integers, Sequences, FiniteSets, TLC

(***************************************************************************)
(* AST nodes (src/jaeum/ast_nodes.py).  Every field name has one type.     *)
(***************************************************************************)
None == [k |-> "None"]
Num(v) == [k |-> "Num", val |-> v]
Bool(v) == [k |-> "Bool", b |-> v]
Str(t) == [k |-> "Str", s |-> t]
Nil == [k |-> "Nil"]
Variable(x) == [k |-> "Variable", name |-> x]
Assign(x, v) == [k |-> "Assign", name |-> x, e |-> v]
Binary(l, o, r) == [k |-> "Binary", l |-> l, op |-> o, r |-> r]
Call(f, as) == [k |-> "Call", callee |-> f, args |-> as]
ArrayLiteral(es) == [k |-> "ArrayLiteral", elems |-> es]
Get(o, i) == [k |-> "Get", obj |-> o, idx |-> i]
Grouping(v) == [k |-> "Grouping", inner |-> v]
Expression(v) == [k |-> "Expression", e |-> v]
PrintStmt(v) == [k |-> "Print", e |-> v]
Return(v) == [k |-> "Return", e |-> v]
Block(ss) == [k |-> "Block", body |-> ss]
If(cnd, t, f) == [k |-> "If", cond |-> cnd, thn |-> t, els |-> f]
While(cnd, blk) == [k |-> "While", cond |-> cnd, blk |-> blk]
Break == [k |-> "Break"]
Continue == [k |-> "Continue"]
Function(f, ps, ss) == [k |-> "Function", name |-> f, params |-> ps, body |-> ss]
FileWrite(p, v) == [k |-> "FileWrite", path |-> p, content |-> v]
FileAppend(p, v) == [k |-> "FileAppend", path |-> p, content |-> v]
FileRead(p, x) == [k |-> "FileRead", path |-> p, target |-> x]

(***************************************************************************)
(* Emitted lines.  op names the mnemonic and operand shape, a and b are    *)
(* register / symbol names, n is an immediate, displacement or label       *)
(* number.                                                                 *)
(***************************************************************************)
Ins(o, x, y, m) == [op |-> o, a |-> x, b |-> y, n |-> m]
Directive(t) == Ins("directive", t, "", 0)
LabelL(i) == Ins("label", "L", "", i)
LabelFunc(f) == Ins("label", "func", f, 0)
LabelStart == Ins("label", "Start", "", 0)
JmpL(i) == Ins("jmp", "L", "", i)
JeL(i) == Ins("je", "L", "", i)
CallExt(f) == Ins("call", "extern", f, 0)
CallFunc(f) == Ins("call", "func", f, 0)
Ret == Ins("ret", "", "", 0)
Push(r) == Ins("push", r, "", 0)
Pop(r) == Ins("pop", r, "", 0)
Mov(d, s) == Ins("mov", d, s, 0)
MovImm(d, i) == Ins("mov_imm", d, "", i)
MovSym(d, t) == Ins("mov_sym", d, t, 0)
LeaSym(d, t, i) == Ins("lea_sym", d, t, i)
LeaIdx8(d, base, idx) == Ins("lea_idx8", d, base, 8)
Load(d, base, disp) == Ins("load", d, base, disp)
Store(base, disp, s) == Ins("store", base, s, disp)
LoadVar(d, x) == Ins("load_var", d, x, 0)
StoreVar(x, s) == Ins("store_var", x, s, 0)
AddImm(d, i) == Ins("add_imm", d, "", i)
SubImm(d, i) == Ins("sub_imm", d, "", i)
CmpImm(d, i) == Ins("cmp_imm", d, "", i)
Add(d, s) == Ins("add", d, s, 0)
Sub(d, s) == Ins("sub", d, s, 0)
Imul(d, s) == Ins("imul", d, s, 0)
Xor(d, s) == Ins("xor", d, s, 0)
Cmp(d, s) == Ins("cmp", d, s, 0)
Cqo == Ins("cqo", "", "", 0)
Idiv(s) == Ins("idiv", s, "", 0)
SetCC(cc) == Ins("set", "al", cc, 0)
MovzxAl == Ins("movzx", "rax", "al", 0)
ImulImm(d, i) == Ins("imul_imm", d, "", i)
Inc(d) == Ins("inc", d, "", 0)
LoadByte(d, base) == Ins("load_byte", d, base, 0)
StoreByte(base, s) == Ins("store_byte", base, s, 0)
StoreByteIdxZero(base, idx) == Ins("store_byte_idx_zero", base, idx, 0)
StoreByteZero(base, disp) == Ins("store_byte_zero", base, "", disp)

(***************************************************************************)
(* Compiler.__init__: the fields of a fresh Compiler.  params models       *)
(* current_func_params (has_params: the attribute exists and is not None). *)
(* frames is a history of every frame laid out by visit_Function.          *)
(***************************************************************************)
NoMap == [x \in {} |-> 0]

NewCompiler ==
    [output |-> <<>>, string_literals |-> <<>>, variables |-> <<>>,
     label_counter |-> 0, loop_stack |-> <<>>,
     locals |-> NoMap, local_scope |-> FALSE,
     params |-> NoMap, has_params |-> FALSE,
     err |-> FALSE, frames |-> <<>>]

Range(s) == {s[i] : i \in 1..Len(s)}

emit(c, line) == IF c.err THEN c ELSE [c EXCEPT !.output = Append(@, line)]

\* A run of consecutive emit calls.
emit_all(c, lines) == IF c.err THEN c ELSE [c EXCEPT !.output = @ \o lines]

\* Mutant: the counter is not advanced.
new_label_stuck(c) == c

new_label(c) == IF c.err THEN c ELSE [c EXCEPT !.label_counter = @ + 1]

generic_visit(c, node) == [c EXCEPT !.err = TRUE]

RECURSIVE visit(_, _)
RECURSIVE visit_all(_, _)
RECURSIVE visit_Block(_, _)
RECURSIVE visit_Print(_, _)
RECURSIVE visit_Expression(_, _)
RECURSIVE visit_If(_, _)
RECURSIVE visit_While(_, _)
RECURSIVE visit_Assign(_, _)
RECURSIVE visit_Binary(_, _)
RECURSIVE visit_Function(_, _)
RECURSIVE visit_Return(_, _)
RECURSIVE visit_Call(_, _)
RECURSIVE visit_args(_, _)
RECURSIVE visit_ArrayLiteral(_, _)
RECURSIVE visit_elems(_, _, _)
RECURSIVE visit_Get(_, _)
RECURSIVE collect_vars(_, _)
RECURSIVE compile_intrinsic(_, _, _)


(***************************************************************************)
(* Statements                                                              *)
(***************************************************************************)
visit_all(c, stmts) ==
    IF stmts = <<>> THEN c ELSE visit_all(visit(c, Head(stmts)), Tail(stmts))

visit_Block(c, stmt) == visit_all(c, stmt.body)

visit_Print(c, stmt) ==
    LET c1 == visit(c, stmt.e)
        fmt == IF stmt.e.k = "Str" THEN "fmt_str" ELSE "fmt_int"
    IN  emit_all(c1, <<LeaSym("rcx", fmt, 0), Mov("rdx", "rax"),
                       SubImm("rsp", 32), CallExt("printf"), AddImm("rsp", 32)>>)

visit_Expression(c, stmt) == visit(c, stmt.e)

visit_If(c, stmt) ==
    LET c1 == new_label(c)
        l_else == c1.label_counter
        c2 == new_label(c1)
        l_end == c2.label_counter
        c3 == emit_all(visit(c2, stmt.cond), <<CmpImm("rax", 0), JeL(l_else)>>)
        c4 == emit(visit(c3, stmt.thn), JmpL(l_end))
        c5 == emit(c4, LabelL(l_else))
        c6 == IF stmt.els.k # "None" THEN visit(c5, stmt.els) ELSE c5
    IN  emit(c6, LabelL(l_end))

loop_push(c, l_start, l_end) == [c EXCEPT !.loop_stack = Append(@, <<l_start, l_end>>)]

\* Mutant: the loop context is left on the stack.
loop_pop_missing(c) == c

loop_pop(c) == [c EXCEPT !.loop_stack = SubSeq(@, 1, Len(@) - 1)]

visit_While(c, stmt) ==
    LET c1 == new_label(c)
        l_start == c1.label_counter
        c2 == new_label(c1)
        l_end == c2.label_counter
        c3 == emit(loop_push(c2, l_start, l_end), LabelL(l_start))
        c4 == emit_all(visit(c3, stmt.cond), <<CmpImm("rax", 0), JeL(l_end)>>)
        c5 == emit_all(visit(c4, stmt.blk), <<JmpL(l_start), LabelL(l_end)>>)
    IN  loop_pop(c5)

\* Mutant: with no enclosing loop, a jump to label 0 is emitted.
visit_Break_unguarded(c, stmt) ==
    IF c.loop_stack = <<>> THEN emit(c, JmpL(0))
    ELSE emit(c, JmpL(c.loop_stack[Len(c.loop_stack)][2]))

visit_Break(c, stmt) ==
    IF c.loop_stack = <<>> THEN c
    ELSE emit(c, JmpL(c.loop_stack[Len(c.loop_stack)][2]))

visit_Continue(c, stmt) ==
    IF c.loop_stack = <<>> THEN c
    ELSE emit(c, JmpL(c.loop_stack[Len(c.loop_stack)][1]))

(***************************************************************************)
(* Expressions (result always in rax)                                      *)
(***************************************************************************)
visit_Literal(c, expr) ==
    CASE expr.k = "Num" -> emit(c, MovImm("rax", expr.val))
      [] expr.k = "Bool" ->
            \* isinstance(True, int) holds in Python: the first branch formats the
            \* bool itself into the line, "mov rax, True" / "mov rax, False".
            emit(c, MovSym("rax", IF expr.b THEN "True" ELSE "False"))
      [] expr.k = "Str" ->
            IF c.err THEN c
            ELSE emit([c EXCEPT !.string_literals = Append(@, expr.s)],
                      LeaSym("rax", "str", Len(c.string_literals)))
      [] OTHER -> emit(c, MovImm("rax", 0))

\* Mutant: the parameter table is consulted before the local table.
visit_Variable_params_first(c, expr) ==
    IF c.local_scope /\ c.has_params /\ expr.name \in DOMAIN c.params
    THEN emit(c, Load("rax", "rbp", c.params[expr.name]))
    ELSE IF c.local_scope /\ expr.name \in DOMAIN c.locals
    THEN emit(c, Load("rax", "rbp", 0 - c.locals[expr.name]))
    ELSE emit(c, LoadVar("rax", expr.name))

visit_Variable(c, expr) ==
    IF c.local_scope /\ expr.name \in DOMAIN c.locals
    THEN emit(c, Load("rax", "rbp", 0 - c.locals[expr.name]))
    ELSE IF c.local_scope /\ c.has_params /\ expr.name \in DOMAIN c.params
    THEN emit(c, Load("rax", "rbp", c.params[expr.name]))
    ELSE emit(c, LoadVar("rax", expr.name))

declare_global(c, name) ==
    IF c.err \/ name \in Range(c.variables) THEN c
    ELSE [c EXCEPT !.variables = Append(@, name)]

visit_Assign(c, expr) ==
    LET c1 == visit(c, expr.e)
        name == expr.name
    IN  IF c1.local_scope
        THEN IF name \in DOMAIN c1.locals
             THEN emit(c1, Store("rbp", 0 - c1.locals[name], "rax"))
             ELSE IF name \in Range(c1.variables)
             THEN emit(c1, StoreVar(name, "rax"))
             ELSE c1
        ELSE emit(declare_global(c1, name), StoreVar(name, "rax"))

binary_op(op) ==
    CASE op = "PLUS" -> <<Add("rax", "rbx")>>
      [] op = "MINUS" -> <<Sub("rax", "rbx")>>
      [] op = "STAR" -> <<Imul("rax", "rbx")>>
      [] op = "SLASH" -> <<Cqo, Idiv("rbx")>>
      [] op = "EQUAL_EQUAL" -> <<Cmp("rax", "rbx"), SetCC("e"), MovzxAl>>
      [] op = "BANG_EQUAL" -> <<Cmp("rax", "rbx"), SetCC("ne"), MovzxAl>>
      [] op = "LESS" -> <<Cmp("rax", "rbx"), SetCC("l"), MovzxAl>>
      [] op = "GREATER" -> <<Cmp("rax", "rbx"), SetCC("g"), MovzxAl>>
      [] OTHER -> <<>>

\* Mutant: the operands are restored the wrong way round.
visit_Binary_swapped(c, expr) ==
    LET c1 == emit(visit(c, expr.l), Push("rax"))
        c2 == emit(visit(c1, expr.r), Pop("rbx"))
    IN  emit_all(c2, binary_op(expr.op))

visit_Binary(c, expr) ==
    LET c1 == emit(visit(c, expr.l), Push("rax"))
        c2 == emit_all(visit(c1, expr.r), <<Mov("rbx", "rax"), Pop("rax")>>)
    IN  emit_all(c2, binary_op(expr.op))


(***************************************************************************)
(* Functions                                                               *)
(***************************************************************************)
collect_vars(block, acc) ==
    IF block = <<>> THEN acc
    ELSE LET stmt == Head(block)
             acc1 == CASE stmt.k = "Expression" ->
                            IF stmt.e.k = "Assign" THEN Append(acc, stmt.e.name) ELSE acc
                       [] stmt.k = "Block" -> collect_vars(stmt.body, acc)
                       [] stmt.k = "If" ->
                            LET a1 == collect_vars(stmt.thn.body, acc)
                            IN  IF stmt.els.k = "None" THEN a1
                                ELSE IF stmt.els.k = "Block"
                                THEN collect_vars(stmt.els.body, a1)
                                ELSE collect_vars(<<stmt.els>>, a1)
                       [] stmt.k = "While" -> collect_vars(stmt.blk.body, acc)
                       [] OTHER -> acc
         IN  collect_vars(Tail(block), acc1)

RECURSIVE assign_offsets(_, _, _, _)
assign_offsets(local_vars, variables, locals, current_offset) ==
    IF local_vars = <<>> THEN [locals |-> locals, current_offset |-> current_offset]
    ELSE LET var_name == Head(local_vars)
         IN  IF var_name \notin DOMAIN locals /\ var_name \notin Range(variables)
             THEN assign_offsets(Tail(local_vars), variables,
                                 [x \in DOMAIN locals \cup {var_name} |->
                                     IF x = var_name THEN current_offset ELSE locals[x]],
                                 current_offset + 8)
             ELSE assign_offsets(Tail(local_vars), variables, locals, current_offset)

\* Mutant: the frame size is not rounded up.
frame_size_unrounded(current_offset) == current_offset + 32

frame_size(current_offset) ==
    LET stack_size == current_offset + 32
    IN  IF stack_size % 16 # 0 THEN stack_size + (16 - (stack_size % 16)) ELSE stack_size

func_params(params) ==
    [p \in Range(params) |->
        LET i == CHOOSE j \in 1..Len(params) :
                    params[j] = p /\ \A m \in (j + 1)..Len(params) : params[m] # p
        IN  16 + ((i - 1) * 8)]

\* Mutant: no jump over the body is emitted.
visit_Function_no_jump(c, stmt) ==
    LET c1 == new_label(c)
        l_end == c1.label_counter
        c2 == emit_all(c1, <<LabelFunc(stmt.name), Push("rbp"), Mov("rbp", "rsp")>>)
        lay == assign_offsets(collect_vars(stmt.body, <<>>), c2.variables, NoMap, 8)
        c3 == emit([c2 EXCEPT !.local_scope = TRUE, !.locals = lay.locals],
                   SubImm("rsp", frame_size(lay.current_offset)))
        c4 == [c3 EXCEPT !.params = func_params(stmt.params), !.has_params = TRUE]
        c6 == emit_all(visit_all(c4, stmt.body),
                       <<Xor("rax", "rax"), Mov("rsp", "rbp"), Pop("rbp"), Ret,
                         LabelL(l_end)>>)
    IN  [c6 EXCEPT !.local_scope = FALSE, !.locals = NoMap,
                   !.params = NoMap, !.has_params = FALSE]

visit_Function(c, stmt) ==
    LET c1 == new_label(c)
        l_end == c1.label_counter
        c2 == emit_all(c1, <<JmpL(l_end), LabelFunc(stmt.name),
                             Push("rbp"), Mov("rbp", "rsp")>>)
        local_vars == collect_vars(stmt.body, <<>>)
        lay == assign_offsets(local_vars, c2.variables, NoMap, 8)
        stack_size == frame_size(lay.current_offset)
        c3 == emit([c2 EXCEPT !.local_scope = TRUE, !.locals = lay.locals],
                   SubImm("rsp", stack_size))
        c4 == [c3 EXCEPT !.params = func_params(stmt.params), !.has_params = TRUE,
                         !.frames = Append(@, [name |-> stmt.name, params |-> stmt.params,
                                               body |-> stmt.body, locals |-> lay.locals,
                                               globals |-> Range(c2.variables),
                                               stack_size |-> stack_size])]
        c5 == visit_all(c4, stmt.body)
        c6 == emit_all(c5, <<Xor("rax", "rax"), Mov("rsp", "rbp"), Pop("rbp"), Ret,
                             LabelL(l_end)>>)
    IN  [c6 EXCEPT !.local_scope = FALSE, !.locals = NoMap,
                   !.params = NoMap, !.has_params = FALSE]

\* Mutant: the returned expression is not evaluated.
visit_Return_no_value(c, stmt) ==
    emit_all(c, <<Mov("rsp", "rbp"), Pop("rbp"), Ret>>)

visit_Return(c, stmt) ==
    LET c1 == IF stmt.e.k # "None" THEN visit(c, stmt.e) ELSE c
    IN  emit_all(c1, <<Mov("rsp", "rbp"), Pop("rbp"), Ret>>)

(***************************************************************************)
(* Calls                                                                   *)
(***************************************************************************)
Intrinsics == {"alloc", "strlen", "code", "char", "concat", "charat", "tostr"}

visit_args(c, args) ==
    IF args = <<>> THEN c
    ELSE visit_args(emit(visit(c, Head(args)), Push("rax")), Tail(args))

regs == <<"rcx", "rdx", "r8", "r9">>

\* Mutant: the registers are filled in the order of the pops.
RECURSIVE pop_args_forward(_)
pop_args_forward(cnt) ==
    IF cnt = 0 THEN <<>>
    ELSE pop_args_forward(cnt - 1) \o <<IF cnt - 1 < 4 THEN Pop(regs[cnt]) ELSE Pop("rax")>>

RECURSIVE pop_args(_)
pop_args(cnt) ==
    IF cnt = 0 THEN <<>>
    ELSE <<IF cnt - 1 < 4 THEN Pop(regs[cnt]) ELSE Pop("rax")>> \o pop_args(cnt - 1)

visit_Call(c, expr) ==
    IF expr.callee.k = "Variable" /\ expr.callee.name \in Intrinsics
    THEN compile_intrinsic(c, expr.callee.name, expr.args)
    ELSE LET c1 == visit_args(c, expr.args)
             c2 == emit_all(c1, pop_args(Len(expr.args)) \o <<SubImm("rsp", 32)>>)
             c3 == IF expr.callee.k = "Variable"
                   THEN emit(c2, CallFunc(expr.callee.name)) ELSE c2
         IN  emit(c3, AddImm("rsp", 32))

ext_call(f) == <<SubImm("rsp", 32), CallExt(f), AddImm("rsp", 32)>>

\* Mutant: the operands are popped in the order they were pushed.
concat_join_swapped ==
    <<Pop("r12"), Pop("r13"), Mov("rcx", "r12")>> \o ext_call("strlen") \o
    <<Mov("r14", "rax"), Mov("rcx", "r13")>> \o ext_call("strlen") \o
    <<Add("r14", "rax"), Inc("r14"), Mov("rcx", "r14")>> \o ext_call("malloc") \o
    <<Mov("r15", "rax"), Mov("rcx", "r15"), Mov("rdx", "r12")>> \o ext_call("strcpy") \o
    <<Mov("rcx", "r15"), Mov("rdx", "r13")>> \o ext_call("strcat") \o
    <<Mov("rax", "r15"), Pop("r15"), Pop("r14"), Pop("r13"), Pop("r12")>>

\* concat, once both operands are on the stack: measure them, allocate the
\* sum of the lengths plus one, copy the first and append the second.
concat_join ==
    <<Pop("r13"), Pop("r12"), Mov("rcx", "r12")>> \o ext_call("strlen") \o
    <<Mov("r14", "rax"), Mov("rcx", "r13")>> \o ext_call("strlen") \o
    <<Add("r14", "rax"), Inc("r14"), Mov("rcx", "r14")>> \o ext_call("malloc") \o
    <<Mov("r15", "rax"), Mov("rcx", "r15"), Mov("rdx", "r12")>> \o ext_call("strcpy") \o
    <<Mov("rcx", "r15"), Mov("rdx", "r13")>> \o ext_call("strcat") \o
    <<Mov("rax", "r15"), Pop("r15"), Pop("r14"), Pop("r13"), Pop("r12")>>

compile_intrinsic(c, name, args) ==
    IF args = <<>> \/ (name \in {"charat", "concat"} /\ Len(args) < 2)
    THEN generic_visit(c, args)
    ELSE CASE name = "alloc" ->
                emit_all(visit(c, args[1]),
                         <<ImulImm("rax", 8), Mov("rcx", "rax")>> \o ext_call("malloc"))
           [] name = "strlen" ->
                emit_all(visit(c, args[1]), <<Mov("rcx", "rax")>> \o ext_call("strlen"))
           [] name = "code" ->
                emit(visit(c, args[1]), LoadByte("rax", "rax"))
           [] name = "charat" ->
                LET c1 == emit(visit(c, args[1]), Push("rax"))
                IN  emit_all(visit(c1, args[2]),
                             <<Pop("rbx"), Add("rbx", "rax"), LoadByte("rax", "rbx")>>)
           [] name = "char" ->
                emit_all(visit(c, args[1]),
                         <<Push("rax"), MovImm("rcx", 2)>> \o ext_call("malloc") \o
                         <<Pop("rbx"), StoreByte("rax", "bl"), StoreByteZero("rax", 1)>>)
           [] name = "concat" ->
                LET c0 == emit_all(c, <<Push("r12"), Push("r13"), Push("r14"), Push("r15")>>)
                    c1 == emit(visit(c0, args[1]), Push("rax"))
                    c2 == emit(visit(c1, args[2]), Push("rax"))
                IN  emit_all(c2, concat_join)
           [] OTHER ->
                LET c0 == emit(c, Push("r12"))
                IN  emit_all(visit(c0, args[1]),
                        <<Push("rax"), MovImm("rcx", 32)>> \o ext_call("malloc") \o
                        <<Mov("r12", "rax"), Pop("r8"), Mov("rcx", "r12"),
                          LeaSym("rdx", "fmt_int_simple", 0)>> \o ext_call("sprintf") \o
                        <<Mov("rax", "r12"), Pop("r12")>>)

(***************************************************************************)
(* Arrays                                                                  *)
(***************************************************************************)
\* Mutant: every element is stored into the first cell.
visit_elems_first_cell(c, elems, i) ==
    IF elems = <<>> THEN c
    ELSE visit_elems(emit_all(visit(c, Head(elems)),
                              <<Load("rbx", "rsp", 0), Store("rbx", 0, "rax")>>),
                     Tail(elems), i + 1)

visit_elems(c, elems, i) ==
    IF elems = <<>> THEN c
    ELSE visit_elems(emit_all(visit(c, Head(elems)),
                              <<Load("rbx", "rsp", 0), Store("rbx", i * 8, "rax")>>),
                     Tail(elems), i + 1)

visit_ArrayLiteral(c, expr) ==
    LET count == Len(expr.elems)
        size == IF count * 8 = 0 THEN 8 ELSE count * 8
        c1 == emit_all(c, <<MovImm("rcx", size)>> \o ext_call("malloc") \o <<Push("rax")>>)
    IN  emit(visit_elems(c1, expr.elems, 0), Pop("rax"))

visit_Get(c, expr) ==
    LET c1 == emit(visit(c, expr.obj), Push("rax"))
        c2 == visit(c1, expr.idx)
    IN  emit_all(c2, <<Mov("rbx", "rax"), Pop("rax"),
                       LeaIdx8("rcx", "rax", "rbx"), Load("rax", "rcx", 0)>>)

(***************************************************************************)
(* Files: fopen, fprintf of the content, fclose; reading measures the file *)
(* with fseek / ftell, reads it into a fresh buffer of size + 1 bytes and  *)
(* stores the buffer address in the target variable.                       *)
(***************************************************************************)
visit_FileWrite(c, stmt) ==
    LET c1 == emit_all(visit(c, stmt.path),
                  <<Mov("rcx", "rax"), LeaSym("rdx", "mode_w", 0)>> \o ext_call("fopen") \o
                  <<Mov("rbx", "rax")>>)
    IN  emit_all(visit(c1, stmt.content),
            <<Mov("rcx", "rbx"), Mov("rdx", "rax")>> \o ext_call("fprintf") \o
            <<Mov("rcx", "rbx")>> \o ext_call("fclose"))

visit_FileAppend(c, stmt) ==
    LET c1 == emit_all(visit(c, stmt.path),
                  <<Mov("rcx", "rax"), LeaSym("rdx", "mode_a", 0)>> \o ext_call("fopen") \o
                  <<Mov("rbx", "rax")>>)
    IN  emit_all(visit(c1, stmt.content),
            <<Mov("rcx", "rbx"), Mov("rdx", "rax")>> \o ext_call("fprintf") \o
            <<Mov("rcx", "rbx")>> \o ext_call("fclose"))

visit_FileRead(c, stmt) ==
    LET c1 == emit_all(visit(c, stmt.path),
                  <<Mov("rcx", "rax"), LeaSym("rdx", "mode_r", 0)>> \o ext_call("fopen") \o
                  <<Mov("rbx", "rax"),
                    Mov("rcx", "rbx"), MovImm("rdx", 0), MovImm("r8", 2)>> \o
                  ext_call("fseek") \o
                  <<Mov("rcx", "rbx")>> \o ext_call("ftell") \o
                  <<Mov("r12", "rax"), Mov("rcx", "rbx")>> \o ext_call("rewind") \o
                  <<Mov("rcx", "r12"), AddImm("rcx", 1)>> \o ext_call("malloc") \o
                  <<Mov("r13", "rax"),
                    Mov("rcx", "r13"), MovImm("rdx", 1), Mov("r8", "r12"),
                    Mov("r9", "rbx")>> \o ext_call("fread") \o
                  <<StoreByteIdxZero("r13", "r12"), Mov("rcx", "rbx")>> \o
                  ext_call("fclose"))
        var_name == stmt.target
    IN  IF c1.local_scope /\ var_name \in DOMAIN c1.locals
        THEN emit(c1, Store("rbp", 0 - c1.locals[var_name], "r13"))
        ELSE emit(declare_global(c1, var_name), StoreVar(var_name, "r13"))

(***************************************************************************)
(* Dispatch by node kind; a node with no visit_ method raises.             *)
(***************************************************************************)
visit(c, node) ==
    IF c.err THEN c
    ELSE CASE node.k = "Block" -> visit_Block(c, node)
           [] node.k = "Print" -> visit_Print(c, node)
           [] node.k = "Expression" -> visit_Expression(c, node)
           [] node.k = "If" -> visit_If(c, node)
           [] node.k = "While" -> visit_While(c, node)
           [] node.k = "Break" -> visit_Break(c, node)
           [] node.k = "Continue" -> visit_Continue(c, node)
           [] node.k \in {"Num", "Bool", "Str", "Nil"} -> visit_Literal(c, node)
           [] node.k = "Variable" -> visit_Variable(c, node)
           [] node.k = "Assign" -> visit_Assign(c, node)
           [] node.k = "Binary" -> visit_Binary(c, node)
           [] node.k = "Function" -> visit_Function(c, node)
           [] node.k = "Return" -> visit_Return(c, node)
           [] node.k = "Call" -> visit_Call(c, node)
           [] node.k = "ArrayLiteral" -> visit_ArrayLiteral(c, node)
           [] node.k = "Get" -> visit_Get(c, node)
           [] node.k = "FileWrite" -> visit_FileWrite(c, node)
           [] node.k = "FileAppend" -> visit_FileAppend(c, node)
           [] node.k = "FileRead" -> visit_FileRead(c, node)
           [] OTHER -> generic_visit(c, node)

(***************************************************************************)
(* Compiler.compile: lower every statement, then render the module text.   *)
(***************************************************************************)
Externs ==
    <<"ExitProcess", "printf", "scanf", "malloc", "free", "fopen", "fclose", "fprintf",
      "fread", "fseek", "ftell", "rewind", "strlen", "strcpy", "strcat", "sprintf">>

lower(statements) ==
    LET c0 == emit_all(NewCompiler,
                  <<Directive("global Start")>> \o
                  [i \in 1..Len(Externs) |-> Directive("extern " \o Externs[i])] \o
                  <<Directive("section .text"), LabelStart, SubImm("rsp", 40)>>)
        c1 == visit_all(c0, statements)
    IN  emit_all(c1, <<Xor("rcx", "rcx"), CallExt("ExitProcess")>>)

DataLine(sym, i, val) == Ins("db", sym, val, i)
BssLine(var) == Ins("resq", var, "", 1)

FixedData ==
    <<DataLine("fmt_int", 0, "%lld\\n"), DataLine("fmt_int_simple", 0, "%lld"),
      DataLine("fmt_str", 0, "%s\\n"), DataLine("mode_r", 0, "rb"),
      DataLine("mode_w", 0, "w"), DataLine("mode_a", 0, "a")>>

\* Mutant: the emitted code is rendered first.
render_code_first(c) ==
    c.output \o
    <<Directive("default rel"), Directive("section .data")>> \o FixedData \o
    [i \in 1..Len(c.string_literals) |-> DataLine("str", i - 1, c.string_literals[i])] \o
    <<Directive("section .bss")>> \o
    [i \in 1..Len(c.variables) |-> BssLine(c.variables[i])]

render(c) ==
    <<Directive("default rel"), Directive("section .data")>> \o FixedData \o
    [i \in 1..Len(c.string_literals) |-> DataLine("str", i - 1, c.string_literals[i])] \o
    <<Directive("section .bss")>> \o
    [i \in 1..Len(c.variables) |-> BssLine(c.variables[i])] \o
    c.output


(***************************************************************************)
(* The external assembler and linker (src/jaeumc.py): the build fails on   *)
(* an undefined or redefined symbol.                                       *)
(***************************************************************************)
LabelId(i) == <<i.a, i.b, i.n>>

Defined(output) == {LabelId(output[i]) : i \in {j \in 1..Len(output) : output[j].op = "label"}}

assembles(c) ==
    /\ \A i \in 1..Len(c.output) :
          LET ins == c.output[i]
          IN  /\ ins.op \in {"jmp", "je"} => LabelId(ins) \in Defined(c.output)
              /\ (ins.op = "call" /\ ins.a = "func") => LabelId(ins) \in Defined(c.output)
              /\ ins.op # "mov_sym"
              /\ ins.op = "load_var" => ins.b \in Range(c.variables)
              /\ ins.op = "store_var" => ins.a \in Range(c.variables)
    /\ \A i, j \in 1..Len(c.output) :
          (c.output[i].op = "label" /\ c.output[j].op = "label"
              /\ LabelId(c.output[i]) = LabelId(c.output[j])) => i = j

(***************************************************************************)
(* The tree-walking interpreter (src/jaeum/interpreter.py).  The state is  *)
(* threaded through the visitors: envs holds every Environment created     *)
(* (values and the index of the enclosing one, 0 for none), environment is *)
(* self.environment, out is what print wrote, error is a raised            *)
(* RuntimeError, returning a raised Return, value the last result.         *)
(***************************************************************************)
IntV(n) == [t |-> "int", n |-> n, decl |-> None, closure |-> 0]
NilV == [t |-> "nil", n |-> 0, decl |-> None, closure |-> 0]
JaeumFunction(declaration, closure) ==
    [t |-> "fn", n |-> 0, decl |-> declaration, closure |-> closure]

Environment(enclosing) == [values |-> NoMap, enclosing |-> enclosing]

NewInterpreter ==
    [envs |-> <<Environment(0)>>, environment |-> 1, out |-> <<>>,
     error |-> FALSE, returning |-> FALSE, value |-> NilV, args |-> <<>>]

Env_define(st, e, name, value) ==
    [st EXCEPT !.envs[e].values =
        [x \in DOMAIN @ \cup {name} |-> IF x = name THEN value ELSE @[x]]]

RECURSIVE Env_get(_, _, _)
Env_get(st, e, name) ==
    IF name \in DOMAIN st.envs[e].values
    THEN [st EXCEPT !.value = st.envs[e].values[name]]
    ELSE IF st.envs[e].enclosing # 0
    THEN Env_get(st, st.envs[e].enclosing, name)
    ELSE [st EXCEPT !.error = TRUE]

RECURSIVE Env_assign(_, _, _, _)
Env_assign(st, e, name, value) ==
    IF name \in DOMAIN st.envs[e].values
    THEN [st EXCEPT !.envs[e].values[name] = value]
    ELSE IF st.envs[e].enclosing # 0
    THEN Env_assign(st, st.envs[e].enclosing, name, value)
    ELSE [st EXCEPT !.error = TRUE]

RECURSIVE execute(_, _)
RECURSIVE evaluate(_, _)
RECURSIVE execute_all(_, _)
RECURSIVE evaluate_args(_, _)

\* for statement in statements: self.execute(statement); an exception (a
\* RuntimeError or a Return) skips the rest.
execute_all(st, statements) ==
    IF statements = <<>> \/ st.error \/ st.returning THEN st
    ELSE execute_all(execute(st, Head(statements)), Tail(statements))

execute_block(st, statements, environment) ==
    LET previous == st.environment
        st1 == execute_all([st EXCEPT !.environment = environment], statements)
    IN  [st1 EXCEPT !.environment = previous]

I_visit_Block(st, stmt) ==
    LET st1 == [st EXCEPT !.envs = Append(@, Environment(st.environment))]
    IN  execute_block(st1, stmt.body, Len(st1.envs))

I_visit_Function(st, stmt) ==
    Env_define(st, st.environment, stmt.name, JaeumFunction(stmt, st.environment))

I_visit_Print(st, stmt) ==
    LET st1 == evaluate(st, stmt.e)
    IN  IF st1.error THEN st1 ELSE [st1 EXCEPT !.out = Append(@, st1.value)]

I_visit_Return(st, stmt) ==
    LET st1 == IF stmt.e.k # "None" THEN evaluate(st, stmt.e) ELSE [st EXCEPT !.value = NilV]
    IN  IF st1.error THEN st1 ELSE [st1 EXCEPT !.returning = TRUE]

I_visit_Assign(st, expr) ==
    LET st1 == evaluate(st, expr.e)
    IN  IF st1.error THEN st1
        ELSE Env_assign(st1, st1.environment, expr.name, st1.value)

evaluate_args(st, arguments) ==
    IF arguments = <<>> \/ st.error THEN st
    ELSE LET st1 == evaluate(st, Head(arguments))
         IN  IF st1.error THEN st1
             ELSE evaluate_args([st1 EXCEPT !.args = Append(@, st1.value)], Tail(arguments))

\* JaeumFunction.call: a new environment over the closure, the parameters
\* defined in it, the body run as a block; Return ends the call.
JaeumFunction_call(st, function, arguments) ==
    LET params == function.decl.params
        st1 == [st EXCEPT !.envs = Append(@,
                   [values |-> [x \in Range(params) |->
                                   arguments[CHOOSE i \in 1..Len(params) :
                                       params[i] = x /\ \A j \in (i + 1)..Len(params) :
                                                           params[j] # x]],
                    enclosing |-> function.closure])]
        st2 == execute_block(st1, function.decl.body, Len(st1.envs))
    IN  IF st2.error THEN st2
        ELSE IF st2.returning THEN [st2 EXCEPT !.returning = FALSE]
        ELSE [st2 EXCEPT !.value = NilV]

I_visit_Call(st, expr) ==
    LET st1 == evaluate(st, expr.callee)
        callee == st1.value
        st2 == evaluate_args([st1 EXCEPT !.args = <<>>], expr.args)
        arguments == st2.args
    IN  IF st1.error THEN st1
        ELSE IF st2.error THEN st2
        ELSE IF callee.t # "fn" \/ Len(arguments) # Len(callee.decl.params)
        THEN [st2 EXCEPT !.error = TRUE]
        ELSE JaeumFunction_call(st2, callee, arguments)

execute(st, stmt) ==
    CASE stmt.k = "Block" -> I_visit_Block(st, stmt)
      [] stmt.k = "Expression" -> evaluate(st, stmt.e)
      [] stmt.k = "Function" -> I_visit_Function(st, stmt)
      [] stmt.k = "Print" -> I_visit_Print(st, stmt)
      [] stmt.k = "Return" -> I_visit_Return(st, stmt)
      [] OTHER -> [st EXCEPT !.error = TRUE]

evaluate(st, expr) ==
    CASE expr.k = "Num" -> [st EXCEPT !.value = IntV(expr.val)]
      [] expr.k = "Variable" -> Env_get(st, st.environment, expr.name)
      [] expr.k = "Assign" -> I_visit_Assign(st, expr)
      [] expr.k = "Call" -> I_visit_Call(st, expr)
      [] OTHER -> [st EXCEPT !.error = TRUE]

\* Interpreter.interpret: a RuntimeError ends the loop (it is reported on
\* stderr).
RECURSIVE interpret_from(_, _)
interpret_from(st, statements) ==
    IF statements = <<>> \/ st.error THEN st
    ELSE interpret_from(execute(st, Head(statements)), Tail(statements))

interpret(statements) == interpret_from(NewInterpreter, statements)

NoFiles == [files |-> <<>>, open |-> <<>>]

(***************************************************************************)
(* The machine running the generated program.  calls is the log of the     *)
(* calls in progress: for each, the position after the call instruction    *)
(* and the stack and frame pointers at the call.                           *)
(***************************************************************************)
VARIABLES phase, prog, compiler, pc, reg, mem, gvar, flags, brk, allocs, stdout,
          bytemem, fs, interp, calls

vars == <<phase, prog, compiler, pc, reg, mem, gvar, flags, brk, allocs, stdout,
          bytemem, fs, interp, calls>>

Regs == {"rax", "rbx", "rcx", "rdx", "r8", "r9", "r12", "r13", "r14", "r15", "rsp", "rbp"}
Volatile == {"rcx", "rdx", "r8", "r9"}

\* Start is entered like a function: rsp is 8 modulo 16.
StackTop == 8 + (16 * 255)
StackLo == StackTop - 1024
StackHi == StackTop + 64
HeapBase == 16 * 512
DataBase == 16 * 1024
CodeBase == 16 * 2048
\* Values a register or a stack word may hold before the program writes it.
JunkVals == {0, 77}
Junk == CHOOSE v \in JunkVals : v # 0

asm == render(compiler)

ValidWord(a) ==
    /\ a % 8 = 0
    /\ \/ (StackLo <= a /\ a <= StackHi)
       \/ (HeapBase <= a /\ a < brk)

SymAddr(sym, i) ==
    CASE sym = "fmt_int" -> DataBase
      [] sym = "fmt_int_simple" -> DataBase + 8
      [] sym = "fmt_str" -> DataBase + 16
      [] sym = "mode_r" -> DataBase + 24
      [] sym = "mode_w" -> DataBase + 32
      [] sym = "mode_a" -> DataBase + 40
      [] OTHER -> DataBase + 64 + (16 * i)

Target(lbl) == CHOOSE i \in 1..Len(compiler.output) :
                  compiler.output[i].op = "label" /\ LabelId(compiler.output[i]) = lbl

Abs(x) == IF x < 0 THEN 0 - x ELSE x
Sign(x) == IF x < 0 THEN 0 - 1 ELSE IF x > 0 THEN 1 ELSE 0
\* idiv: signed division truncating toward zero.
TruncDiv(x, y) == Sign(x) * Sign(y) * (Abs(x) \div Abs(y))

CondHolds(cc, f) ==
    CASE cc = "e" -> f = 0
      [] cc = "ne" -> f # 0
      [] cc = "l" -> f < 0
      [] cc = "g" -> f > 0
      [] cc = "le" -> f <= 0
      [] OTHER -> f >= 0

Init ==
    /\ phase = "init"
    /\ prog = <<>>
    /\ compiler = NewCompiler
    /\ pc = 0
    /\ reg = [r \in Regs |-> 0]
    /\ mem = NoMap
    /\ gvar = NoMap
    /\ flags = 0
    /\ brk = HeapBase
    /\ allocs = <<>>
    /\ stdout = <<>>
    /\ bytemem = NoMap
    /\ fs = NoFiles
    /\ interp = NewInterpreter
    /\ calls = <<>>

ins == compiler.output[pc]

Running == phase = "run" /\ pc \in 1..Len(compiler.output)

RegOps ==
    {"mov", "mov_imm", "lea_sym", "lea_idx8", "add", "sub", "imul", "xor", "add_imm",
     "sub_imm", "imul_imm", "inc", "cqo", "idiv", "cmp", "cmp_imm", "set", "movzx"}

RegStep(i) ==
    CASE i.op = "mov" -> [reg EXCEPT ![i.a] = reg[i.b]]
      [] i.op = "mov_imm" -> [reg EXCEPT ![i.a] = i.n]
      [] i.op = "lea_sym" -> [reg EXCEPT ![i.a] = SymAddr(i.b, i.n)]
      [] i.op = "lea_idx8" -> [reg EXCEPT ![i.a] = reg["rax"] + (reg["rbx"] * 8)]
      [] i.op = "add" -> [reg EXCEPT ![i.a] = reg[i.a] + reg[i.b]]
      [] i.op = "sub" -> [reg EXCEPT ![i.a] = reg[i.a] - reg[i.b]]
      [] i.op = "imul" -> [reg EXCEPT ![i.a] = reg[i.a] * reg[i.b]]
      [] i.op = "xor" -> [reg EXCEPT ![i.a] = 0]
      [] i.op = "add_imm" -> [reg EXCEPT ![i.a] = reg[i.a] + i.n]
      [] i.op = "sub_imm" -> [reg EXCEPT ![i.a] = reg[i.a] - i.n]
      [] i.op = "imul_imm" -> [reg EXCEPT ![i.a] = reg[i.a] * i.n]
      [] i.op = "inc" -> [reg EXCEPT ![i.a] = reg[i.a] + 1]
      [] i.op = "cqo" -> [reg EXCEPT !["rdx"] = IF reg["rax"] < 0 THEN 0 - 1 ELSE 0]
      [] i.op = "idiv" ->
            LET q == TruncDiv(reg["rax"], reg[i.a])
            IN  [reg EXCEPT !["rax"] = q, !["rdx"] = reg["rax"] - (q * reg[i.a])]
      [] i.op = "set" ->
            [reg EXCEPT !["rax"] = (reg["rax"] - (reg["rax"] % 256))
                                     + (IF CondHolds(i.b, flags) THEN 1 ELSE 0)]
      [] i.op = "movzx" -> [reg EXCEPT !["rax"] = reg["rax"] % 256]
      [] OTHER -> reg

FlagStep(i) ==
    CASE i.op = "cmp" -> Sign(reg[i.a] - reg[i.b])
      [] i.op = "cmp_imm" -> Sign(reg[i.a] - i.n)
      [] OTHER -> flags

DivFault(i) == i.op = "idiv" /\ reg[i.a] = 0

ExecReg ==
    /\ Running
    /\ ins.op \in RegOps
    /\ ~DivFault(ins)
    /\ reg' = RegStep(ins)
    /\ flags' = FlagStep(ins)
    /\ pc' = pc + 1
    /\ UNCHANGED <<phase, prog, compiler, mem, gvar, brk, allocs, stdout>>
    /\ UNCHANGED <<bytemem, fs, interp, calls>>

MemOps == {"push", "pop", "load", "store", "load_var", "store_var"}

\* The word address an instruction reads or writes.
MemAddr(i) ==
    CASE i.op = "push" -> reg["rsp"] - 8
      [] i.op = "pop" -> reg["rsp"]
      [] i.op = "load" -> reg[i.b] + i.n
      [] i.op = "store" -> reg[i.a] + i.n
      [] OTHER -> StackTop

MemFault(i) == i.op \in {"push", "pop", "load", "store"} /\ ~ValidWord(MemAddr(i))

\* What a read of word a may return: the word stored there, or, for a word the
\* program never wrote, whatever the memory happens to hold.
ReadVals(a) == IF a \in DOMAIN mem THEN {mem[a]} ELSE JunkVals

ExecMem ==
    /\ Running
    /\ ins.op \in MemOps
    /\ ~MemFault(ins)
    /\ LET a == MemAddr(ins)
       IN  CASE ins.op = "push" ->
                   /\ mem' = (a :> reg[ins.a]) @@ mem
                   /\ reg' = [reg EXCEPT !["rsp"] = a]
                   /\ gvar' = gvar
             [] ins.op = "pop" ->
                   /\ \E v \in ReadVals(a) :
                         reg' = [[reg EXCEPT !["rsp"] = a + 8] EXCEPT ![ins.a] = v]
                   /\ UNCHANGED <<mem, gvar>>
             [] ins.op = "load" ->
                   /\ \E v \in ReadVals(a) : reg' = [reg EXCEPT ![ins.a] = v]
                   /\ UNCHANGED <<mem, gvar>>
             [] ins.op = "store" ->
                   /\ mem' = (a :> reg[ins.b]) @@ mem
                   /\ UNCHANGED <<reg, gvar>>
             [] ins.op = "load_var" ->
                   /\ reg' = [reg EXCEPT ![ins.a] =
                                 IF ins.b \in DOMAIN gvar THEN gvar[ins.b] ELSE 0]
                   /\ UNCHANGED <<mem, gvar>>
             [] OTHER ->
                   /\ gvar' = (ins.a :> reg[ins.b]) @@ gvar
                   /\ UNCHANGED <<mem, reg>>
    /\ pc' = pc + 1
    /\ UNCHANGED <<phase, prog, compiler, flags, brk, allocs, stdout>>
    /\ UNCHANGED <<bytemem, fs, interp, calls>>

ExecJump ==
    /\ Running
    /\ ins.op \in {"jmp", "je", "label", "directive"}
    /\ pc' = IF ins.op = "jmp" \/ (ins.op = "je" /\ flags = 0)
             THEN Target(LabelId(ins)) ELSE pc + 1
    /\ UNCHANGED <<phase, prog, compiler, reg, mem, gvar, flags, brk, allocs, stdout>>
    /\ UNCHANGED <<bytemem, fs, interp, calls>>

ExecCall ==
    /\ Running
    /\ ins.op = "call" /\ ins.a = "func"
    /\ ValidWord(reg["rsp"] - 8)
    /\ mem' = ((reg["rsp"] - 8) :> (CodeBase + pc + 1)) @@ mem
    /\ reg' = [reg EXCEPT !["rsp"] = reg["rsp"] - 8]
    /\ pc' = Target(LabelId(ins))
    /\ calls' = Append(calls, [ret |-> pc + 1, rsp |-> reg["rsp"], rbp |-> reg["rbp"]])
    /\ UNCHANGED <<phase, prog, compiler, gvar, flags, brk, allocs, stdout>>
    /\ UNCHANGED <<bytemem, fs, interp>>

\* ret pops the return address; one that is no address of the code is a crash.
RetTargets == IF reg["rsp"] \in DOMAIN mem THEN {mem[reg["rsp"]]} ELSE JunkVals

ExecRet ==
    /\ Running
    /\ ins.op = "ret"
    /\ ValidWord(reg["rsp"])
    /\ \E t \in RetTargets :
          /\ (t - CodeBase) \in 1..Len(compiler.output)
          /\ pc' = t - CodeBase
    /\ reg' = [reg EXCEPT !["rsp"] = reg["rsp"] + 8]
    /\ calls' = IF calls = <<>> THEN calls ELSE SubSeq(calls, 1, Len(calls) - 1)
    /\ UNCHANGED <<phase, prog, compiler, mem, gvar, flags, brk, allocs, stdout>>
    /\ UNCHANGED <<bytemem, fs, interp>>

\* A callee of the C runtime may overwrite the volatile registers and its
\* 32-byte home area, or leave them as they are.
Clobber(keep, result) ==
    [r \in Regs |-> IF r = "rax" THEN result
                    ELSE IF r \in Volatile /\ ~keep THEN Junk ELSE reg[r]]

HomeArea == {reg["rsp"] + (8 * j) : j \in 0..3}

ClobberMem(keep) ==
    IF keep THEN mem
    ELSE [a \in DOMAIN mem \cup {h \in HomeArea : ValidWord(h)} |->
             IF a \in HomeArea THEN Junk ELSE mem[a]]

RoundUp16(n) == IF n % 16 = 0 THEN n ELSE n + (16 - (n % 16))

ExecExtern ==
    /\ Running
    /\ ins.op = "call" /\ ins.a = "extern"
    /\ CASE ins.b = "ExitProcess" ->
               /\ phase' = "done"
               /\ UNCHANGED <<pc, reg, mem, brk, allocs, stdout>>
         [] ins.b = "printf" ->
               /\ \E keep \in BOOLEAN :
                     /\ reg' = Clobber(keep, Junk)
                     /\ mem' = ClobberMem(keep)
               /\ stdout' = Append(stdout, <<reg["rcx"], reg["rdx"]>>)
               /\ pc' = pc + 1
               /\ UNCHANGED <<phase, brk, allocs>>
         [] ins.b = "malloc" ->
               /\ \E keep \in BOOLEAN, ok \in BOOLEAN :
                     /\ reg' = Clobber(keep, IF ok THEN brk ELSE 0)
                     /\ mem' = ClobberMem(keep)
                     /\ brk' = IF ok THEN brk + RoundUp16(reg["rcx"]) ELSE brk
                     /\ allocs' = Append(allocs, IF ok THEN brk ELSE 0)
               /\ pc' = pc + 1
               /\ UNCHANGED <<phase, stdout>>
         [] OTHER -> FALSE
    /\ UNCHANGED <<prog, compiler, gvar, flags>>
    /\ UNCHANGED <<bytemem, fs, interp, calls>>

(***************************************************************************)
(* Bytes: string literals of the data section, heap buffers, and the C     *)
(* runtime's string routines.                                              *)
(***************************************************************************)
\* The bytes NASM emits for  db "<val>"  for the literals of the programs.
Bytes(val) ==
    CASE val = "a" -> <<97>>
      [] val = "b" -> <<98>>
      [] val = "p" -> <<112>>
      [] val = "ab" -> <<97, 98>>
      [] val = "cd" -> <<99, 100>>
      [] val = "%%" -> <<37, 37>>
      [] val = "%d" -> <<37, 100>>
      [] val = "rb" -> <<114, 98>>
      [] val = "w" -> <<119>>
      [] OTHER -> <<>>

\* The initialised byte at address a of the data section, or -1.
DataByte(a) ==
    LET off == a - DataBase
        fixed == CASE off \div 8 = 3 -> Bytes("rb") \o <<0>>
                   [] off \div 8 = 4 -> Bytes("w") \o <<0>>
                   [] off \div 8 = 5 -> Bytes("a") \o <<0>>
                   [] OTHER -> <<>>
        i == (off - 64) \div 16
        lit == IF i < Len(compiler.string_literals)
               THEN Bytes(compiler.string_literals[i + 1]) \o <<0>> ELSE <<>>
    IN  IF off < 0 THEN 0 - 1
        ELSE IF off < 64
        THEN (IF off % 8 < Len(fixed) THEN fixed[(off % 8) + 1] ELSE 0 - 1)
        ELSE (IF (off - 64) % 16 < Len(lit) THEN lit[((off - 64) % 16) + 1] ELSE 0 - 1)

\* The byte the program or the loader put at address a, or -1.
ByteOf(a) == IF a \in DOMAIN bytemem THEN bytemem[a] ELSE DataByte(a)

ValidByte(a) ==
    \/ (HeapBase <= a /\ a < brk)
    \/ (DataBase <= a /\ a < DataBase + 64 + (16 * Len(compiler.string_literals)))
    \/ (StackLo <= a /\ a < StackHi + 8)

\* The zero-terminated string at address a; ok is false when the scan runs
\* into a byte nobody wrote before it finds the terminator.
RECURSIVE CStr(_)
CStr(a) ==
    IF ByteOf(a) < 0 THEN [s |-> <<>>, ok |-> FALSE]
    ELSE IF ByteOf(a) = 0 THEN [s |-> <<>>, ok |-> TRUE]
    ELSE LET r == CStr(a + 1) IN [s |-> <<ByteOf(a)>> \o r.s, ok |-> r.ok]

WriteBytes(a, s) ==
    [x \in DOMAIN bytemem \cup (a..(a + Len(s) - 1)) |->
        IF x \in a..(a + Len(s) - 1) THEN s[(x - a) + 1] ELSE bytemem[x]]

ByteOps == {"load_byte", "store_byte", "store_byte_zero", "store_byte_idx_zero"}

ByteAddr(i) ==
    CASE i.op = "load_byte" -> reg[i.b]
      [] i.op = "store_byte" -> reg[i.a]
      [] i.op = "store_byte_zero" -> reg[i.a] + i.n
      [] i.op = "store_byte_idx_zero" -> reg[i.a] + reg[i.b]
      [] OTHER -> HeapBase

ExecByte ==
    /\ Running
    /\ ins.op \in ByteOps
    /\ ValidByte(ByteAddr(ins))
    /\ IF ins.op = "load_byte"
       THEN /\ \E v \in (IF ByteOf(ByteAddr(ins)) >= 0
                         THEN {ByteOf(ByteAddr(ins))} ELSE JunkVals) :
                  reg' = [reg EXCEPT ![ins.a] = v]
            /\ UNCHANGED bytemem
       ELSE /\ bytemem' = WriteBytes(ByteAddr(ins),
                              <<IF ins.op = "store_byte" THEN reg["rbx"] % 256 ELSE 0>>)
            /\ UNCHANGED reg
    /\ pc' = pc + 1
    /\ UNCHANGED <<phase, prog, compiler, mem, gvar, flags, brk, allocs, stdout, fs, interp, calls>>

StrRoutines == {"strlen", "strcpy", "strcat"}

\* Where strcpy / strcat start to write, and what they write.
StrDest == IF ins.b = "strcat" THEN reg["rcx"] + Len(CStr(reg["rcx"]).s) ELSE reg["rcx"]
StrSrc == CStr(reg["rdx"]).s \o <<0>>

\* A string routine handed a pointer to no string, or a destination that
\* does not lie in mapped memory.
StrFault ==
    /\ ins.op = "call" /\ ins.a = "extern" /\ ins.b \in StrRoutines
    /\ \/ ~CStr(reg["rcx"]).ok /\ ins.b # "strcpy"
       \/ ins.b # "strlen" /\ ~CStr(reg["rdx"]).ok
       \/ ins.b # "strlen" /\ \E x \in StrDest..(StrDest + Len(StrSrc) - 1) : ~ValidByte(x)

ExecStr ==
    /\ Running
    /\ ins.op = "call" /\ ins.a = "extern" /\ ins.b \in StrRoutines
    /\ IF ins.b = "strlen"
       THEN /\ ValidByte(reg["rcx"])
            /\ \E keep \in BOOLEAN :
                  /\ reg' = Clobber(keep, Len(CStr(reg["rcx"]).s))
                  /\ mem' = ClobberMem(keep)
            /\ UNCHANGED bytemem
       ELSE /\ \A x \in StrDest..(StrDest + Len(StrSrc) - 1) : ValidByte(x)
            /\ \E keep \in BOOLEAN :
                  /\ reg' = Clobber(keep, reg["rcx"])
                  /\ mem' = ClobberMem(keep)
            /\ bytemem' = WriteBytes(StrDest, StrSrc)
    /\ pc' = pc + 1
    /\ UNCHANGED <<phase, prog, compiler, gvar, flags, brk, allocs, stdout, fs, interp, calls>>

(***************************************************************************)
(* Files of the C runtime.  fs.files maps a path to the bytes of the file; *)
(* fs.open lists the streams fopen returned, stream k at FileBase + 8 k.   *)
(***************************************************************************)
FileBase == 16 * 4096

FileRoutines == {"fopen", "fprintf", "fclose", "fseek", "ftell", "rewind", "fread"}

\* The index in fs.open of the live stream fp points to, or 0.
Stream(fp) ==
    LET k == (fp - FileBase) \div 8
    IN  IF fp > FileBase /\ (fp - FileBase) % 8 = 0 /\ k <= Len(fs.open) /\ fs.open[k].live
        THEN k ELSE 0

\* The decimal digits printf writes for an integer.
RECURSIVE Digits(_)
Digits(n) ==
    IF n < 0 THEN <<45>> \o Digits(0 - n)
    ELSE IF n < 10 THEN <<48 + n>>
    ELSE Digits(n \div 10) \o <<48 + (n % 10)>>

\* What printf writes for a format: "%%" is one percent sign, "%d" takes
\* the next argument, any other byte is copied.  -1 marks a conversion
\* with no argument register left or one that is not modelled.
RECURSIVE Format(_, _)
Format(fmt, args) ==
    IF fmt = <<>> THEN <<>>
    ELSE IF fmt[1] # 37 THEN <<fmt[1]>> \o Format(Tail(fmt), args)
    ELSE IF Len(fmt) >= 2 /\ fmt[2] = 37 THEN <<37>> \o Format(Tail(Tail(fmt)), args)
    ELSE IF Len(fmt) >= 2 /\ fmt[2] = 100 /\ args # <<>>
    THEN Digits(args[1]) \o Format(Tail(Tail(fmt)), Tail(args))
    ELSE <<0 - 1>>

\* A stream opened without "b" writes a line feed as carriage return, line
\* feed.
RECURSIVE TextMode(_)
TextMode(s) ==
    IF s = <<>> THEN <<>>
    ELSE (IF s[1] = 10 THEN <<13, 10>> ELSE <<s[1]>>) \o TextMode(Tail(s))

PutFile(path, bytes) ==
    [q \in DOMAIN fs.files \cup {path} |-> IF q = path THEN bytes ELSE fs.files[q]]

\* The stream argument of a file routine.
StreamArg == Stream(IF ins.b = "fread" THEN reg["r9"] ELSE reg["rcx"])

\* What fread copies: at most size * count bytes from the position on.
ReadChunk ==
    LET st == fs.open[StreamArg]
        file == fs.files[st.path]
        n == reg["rdx"] * reg["r8"]
        m == IF Len(file) - st.pos < n THEN Len(file) - st.pos ELSE n
    IN  IF m <= 0 THEN <<>> ELSE SubSeq(file, st.pos + 1, st.pos + m)

\* A file routine handed no stream (it may also return an error), a path or
\* format that is no string, a format with a conversion that has no
\* argument, or a buffer outside mapped memory.
FileFault ==
    /\ ins.op = "call" /\ ins.a = "extern" /\ ins.b \in FileRoutines
    /\ IF ins.b = "fopen" THEN ~CStr(reg["rcx"]).ok \/ ~CStr(reg["rdx"]).ok
       ELSE \/ StreamArg = 0
            \/ ins.b = "fprintf" /\ (~CStr(reg["rdx"]).ok
                  \/ (0 - 1) \in Range(Format(CStr(reg["rdx"]).s, <<reg["r8"], reg["r9"]>>)))
            \/ ins.b = "fread" /\ StreamArg # 0 /\ \E x \in reg["rcx"]..(reg["rcx"] + Len(ReadChunk) - 1) :
                                     ~ValidByte(x)

ExecFile ==
    /\ Running
    /\ ins.op = "call" /\ ins.a = "extern" /\ ins.b \in FileRoutines
    /\ ~FileFault \/ (ins.b # "fopen" /\ StreamArg = 0)
    /\ \E keep \in BOOLEAN :
        LET k == StreamArg
            st == fs.open[k]
            path == CStr(reg["rcx"]).s
            mode == CStr(reg["rdx"]).s
            out == Format(CStr(reg["rdx"]).s, <<reg["r8"], reg["r9"]>>)
        IN  /\ mem' = ClobberMem(keep)
            /\ CASE ins.b # "fopen" /\ k = 0 ->
                      \* No stream: the routine may report the error and return.
                      /\ reg' = Clobber(keep, IF ins.b = "fread" THEN 0 ELSE 0 - 1)
                      /\ UNCHANGED fs
                 [] ins.b = "fopen" ->
                      IF mode # <<>> /\ mode[1] \in {97, 119, 114}
                            /\ (mode[1] = 114 => path \in DOMAIN fs.files)
                      THEN /\ fs' = [files |-> IF mode[1] = 119 THEN PutFile(path, <<>>)
                                               ELSE IF path \in DOMAIN fs.files THEN fs.files
                                               ELSE PutFile(path, <<>>),
                                     open |-> Append(fs.open,
                                                [path |-> path, mode |-> mode[1],
                                                 text |-> 98 \notin Range(mode),
                                                 pos |-> 0, live |-> TRUE])]
                           /\ reg' = Clobber(keep, FileBase + (8 * (Len(fs.open) + 1)))
                      ELSE /\ reg' = Clobber(keep, 0)
                           /\ UNCHANGED fs
                 [] ins.b = "fprintf" ->
                      IF st.mode = 114
                      THEN reg' = Clobber(keep, 0 - 1) /\ UNCHANGED fs
                      ELSE /\ fs' = [fs EXCEPT !.files = PutFile(st.path,
                                        fs.files[st.path] \o
                                        (IF st.text THEN TextMode(out) ELSE out))]
                           /\ reg' = Clobber(keep, Len(out))
                 [] ins.b = "fclose" ->
                      /\ fs' = [fs EXCEPT !.open[k].live = FALSE]
                      /\ reg' = Clobber(keep, 0)
                 [] ins.b = "fseek" ->
                      /\ fs' = [fs EXCEPT !.open[k].pos =
                                    reg["rdx"] + (CASE reg["r8"] = 0 -> 0
                                                    [] reg["r8"] = 1 -> st.pos
                                                    [] OTHER -> Len(fs.files[st.path]))]
                      /\ reg' = Clobber(keep, 0)
                 [] ins.b = "ftell" ->
                      /\ reg' = Clobber(keep, st.pos)
                      /\ UNCHANGED fs
                 [] ins.b = "rewind" ->
                      /\ fs' = [fs EXCEPT !.open[k].pos = 0]
                      /\ reg' = Clobber(keep, Junk)
                 [] OTHER ->
                      /\ fs' = [fs EXCEPT !.open[k].pos = @ + Len(ReadChunk)]
                      /\ reg' = Clobber(keep,
                                   IF reg["rdx"] = 0 THEN 0 ELSE Len(ReadChunk) \div reg["rdx"])
            /\ bytemem' = IF ins.b = "fread" /\ k # 0 THEN WriteBytes(reg["rcx"], ReadChunk)
                          ELSE bytemem
    /\ pc' = pc + 1
    /\ UNCHANGED <<phase, prog, compiler, gvar, flags, brk, allocs, stdout, interp, calls>>

\* Hardware and ABI faults end the process: a division by zero, an access
\* outside the mapped memory, a return to no code address, and (possibly) a
\* C runtime routine entered with a misaligned stack.
Fault ==
    /\ Running
    /\ \/ DivFault(ins)
       \/ (ins.op \in MemOps /\ MemFault(ins))
       \/ (ins.op \in ByteOps /\ ~ValidByte(ByteAddr(ins)))
       \/ StrFault
       \/ FileFault
       \/ (ins.op = "call" /\ ins.a = "func" /\ ~ValidWord(reg["rsp"] - 8))
       \/ (ins.op = "ret" /\ (~ValidWord(reg["rsp"])
                               \/ \E t \in RetTargets : (t - CodeBase) \notin 1..Len(compiler.output)))
       \/ (ins.op = "call" /\ ins.a = "extern" /\ ins.b # "ExitProcess"
             /\ reg["rsp"] % 16 # 0)
    /\ phase' = "fault"
    /\ UNCHANGED <<prog, compiler, pc, reg, mem, gvar, flags, brk, allocs, stdout>>
    /\ UNCHANGED <<bytemem, fs, interp, calls>>


(***************************************************************************)
(* Compiler.compile on a program, then the build (assembler and linker)    *)
(* and the start of the process at Start.                                  *)
(***************************************************************************)
Compile(p) ==
    /\ phase = "init"
    /\ prog' = p
    /\ compiler' = lower(p)
    /\ phase' = IF compiler'.err THEN "error" ELSE "compiled"
    /\ UNCHANGED <<pc, reg, mem, gvar, flags, brk, allocs, stdout>>
    /\ UNCHANGED <<bytemem, fs, interp, calls>>

Build ==
    /\ phase = "compiled"
    /\ IF assembles(compiler)
       THEN /\ phase' = "run"
            /\ pc' = Target(LabelId(LabelStart))
            /\ reg' = [r \in Regs |-> IF r = "rsp" THEN StackTop ELSE Junk]
       ELSE /\ phase' = "asm_error"
            /\ UNCHANGED <<pc, reg>>
    /\ UNCHANGED <<prog, compiler, mem, gvar, flags, brk, allocs, stdout>>
    /\ UNCHANGED <<bytemem, fs, interp, calls>>


(***************************************************************************)
(* Programs.  Spec runs the whole pipeline on programs of expressions,     *)
(* calls and arrays; SpecLower lowers programs of function declarations,   *)
(* loops and literals.                                                     *)
(***************************************************************************)
MaxLit == 3
MaxElems == 2
MaxArgs == 5
MaxBody == 2

Lits == {Num(v) : v \in 0..MaxLit}
ArithOps == {"PLUS", "MINUS", "STAR", "SLASH"}
CmpOps == {"EQUAL_EQUAL", "BANG_EQUAL", "LESS", "GREATER", "LESS_EQUAL", "GREATER_EQUAL"}
Ops == ArithOps \cup CmpOps \cup {"PERCENT"}

Bin1 == {Binary(x, o, y) : x \in Lits, y \in Lits, o \in Ops}
NestLits == {Num(v) : v \in 1..MaxLit}
BinL == {Binary(Binary(x, o1, y), o2, z) :
            x \in NestLits, y \in NestLits, z \in NestLits, o1 \in ArithOps, o2 \in Ops}
BinR == {Binary(x, o2, Binary(y, o1, z)) :
            x \in NestLits, y \in NestLits, z \in NestLits, o1 \in ArithOps, o2 \in Ops}

\* function g() { return 2 * 3; }   function p() { print(1); }
FnG == Function("g", <<>>, <<Return(Binary(Num(2), "STAR", Num(3)))>>)
FnP == Function("p", <<>>, <<PrintStmt(Num(1))>>)
CallG == Call(Variable("g"), <<>>)
CallP == Call(Variable("p"), <<>>)

ExprProgs == {<<Expression(e)>> : e \in Bin1 \cup BinL \cup BinR}

CallExprProgs ==
    {<<FnG, Expression(Binary(x, o, CallG))>> : x \in Lits, o \in Ops} \cup
    {<<FnG, Expression(Binary(CallG, o, x))>> : x \in Lits, o \in Ops} \cup
    {<<FnG, Expression(Binary(CallG, o, CallG))>> : o \in Ops}

Elems == {Num(1), Num(2), Binary(Num(1), "PLUS", Num(2)), CallG, ArrayLiteral(<<Num(3)>>)}
Arrays == UNION {{ArrayLiteral(es) : es \in [1..n -> Elems]} : n \in 0..MaxElems}

ArrayProgs ==
    {<<FnG, Expression(a)>> : a \in Arrays} \cup
    UNION {{<<FnG, Expression(Get(a, Num(i)))>> : i \in 0..(Len(a.elems) - 1)} : a \in Arrays}

\* f(p1, ..., pn) called with n arguments, argument i being 10 + i, or with one
\* argument replaced by an expression that pushes and pops or by a call.
ParamNames == <<"p1", "p2", "p3", "p4", "p5", "p6">>
FnF(n) == Function("f", SubSeq(ParamNames, 1, n), <<Return(Num(0))>>)
PlainArgs(n) == [i \in 1..n |-> Num(10 + i)]
ArgVariants == {Binary(Num(9), "MINUS", Num(2)), CallG}
ArgLists(n) ==
    {PlainArgs(n)} \cup
    {[PlainArgs(n) EXCEPT ![j] = v] : j \in 1..n, v \in ArgVariants}
CallProgs ==
    {<<FnG, FnF(2), Expression(Call(Variable("f"),
                                    <<Assign("x", Num(1)), Assign("x", Num(2))>>))>>} \cup
    UNION {{<<FnG, FnF(n), Expression(Call(Variable("f"), as))>> : as \in ArgLists(n)} :
              n \in 0..MaxArgs}

PrintProgs ==
    {<<PrintStmt(Num(1))>>, <<PrintStmt(Str("hi"))>>, <<FnG, PrintStmt(CallG)>>,
     <<FnP, Expression(CallP)>>, <<FnP, Expression(Binary(Num(1), "PLUS", CallP))>>,
     <<FnP, Expression(Call(Variable("p"), <<Num(1), CallP>>))>>,
     <<PrintStmt(Bool(TRUE))>>, <<Expression(Grouping(Num(1)))>>,
     <<Expression(Assign("x", Num(2))), PrintStmt(Binary(Variable("x"), "STAR", Num(2)))>>}

\* f(p1, ..., pn) { return pi; } called with the arguments 11, ..., 10 + n.
FnR(n, i) == Function("f", SubSeq(ParamNames, 1, n), <<Return(Variable(ParamNames[i]))>>)
ParamProgs ==
    UNION {{<<FnR(n, i), Expression(Call(Variable("f"), PlainArgs(n)))>> : i \in 1..n} :
              n \in 1..4}

\* Function declarations at top level, in a block, in a conditional, in a
\* loop body and in another function, with and without return statements.
SetX == Expression(Assign("x", Num(1)))
SetY == Expression(Assign("y", Num(1)))
SetZ == Expression(Assign("z", Num(1)))
IncX == Expression(Assign("x", Binary(Variable("x"), "PLUS", Num(1))))
DeclProgs ==
    {<<FnG, PrintStmt(Num(1))>>, <<FnP, PrintStmt(Num(1))>>,
     <<PrintStmt(Num(1)), FnG, PrintStmt(CallG)>>,
     <<Block(<<FnP, Expression(CallP)>>), Expression(CallP)>>,
     <<If(Num(1), Block(<<FnG, Expression(CallG)>>), None), Expression(CallG)>>,
     <<If(Num(0), Block(<<FnG>>), Block(<<FnP>>)), Expression(CallG)>>,
     <<Expression(Assign("x", Num(0))),
       While(Binary(Variable("x"), "LESS", Num(2)), Block(<<FnG, IncX>>)),
       Expression(CallG)>>,
     <<Expression(Assign("x", Num(0))),
       While(Binary(Variable("x"), "LESS", Num(2)), Block(<<FnP, Expression(CallP), IncX>>))>>,
     <<Function("h", <<>>, <<FnG, Return(CallG)>>), Expression(Call(Variable("h"), <<>>))>>,
     <<Function("h", <<>>, <<PrintStmt(Num(2)), FnP, Expression(CallP)>>),
       Expression(Call(Variable("h"), <<>>))>>}

\* Top-level statements that terminate: prints, assignments, conditionals,
\* and return, break and continue written at top level.
TopStmts ==
    {PrintStmt(Num(1)), PrintStmt(Num(2)), Expression(Assign("x", Num(1))),
     If(Num(1), Block(<<PrintStmt(Num(3))>>), None),
     Return(None), Return(Num(1)), Break, Continue}

TopProgs == UNION {[1..n -> TopStmts] : n \in 0..MaxBody}

\* Strings: concatenation, possibly nested, and the byte intrinsics.
Cat(a, b) == Call(Variable("concat"), <<a, b>>)
StrLits == {Str("ab"), Str("cd")}
StrArgs == StrLits \cup {Cat(Str("a"), Str("b"))}
Cats == {Cat(a, b) : a \in StrArgs, b \in StrArgs}

StrProgs ==
    {<<Expression(c)>> : c \in Cats} \cup
    {<<Expression(Call(Variable("strlen"), <<c>>))>> : c \in Cats} \cup
    {<<Expression(Call(Variable("charat"), <<c, Num(i)>>))>> : c \in Cats, i \in 0..MaxLit} \cup
    {<<Expression(Call(Variable("code"), <<Call(Variable("char"), <<Num(97 + i)>>)>>))>> :
        i \in 0..MaxLit}

\* Files: write or append, then read back into t.
PathP == Str("p")
Ten == Expression(Assign("x", Call(Variable("char"), <<Num(10)>>)))
Payloads == {Str("ab"), Str("cd"), Str("%%"), Str("%d")}

WriteReads ==
    {<<FileWrite(PathP, c), FileRead(PathP, "t")>> : c \in Payloads} \cup
    {<<Ten, FileWrite(PathP, Variable("x")), FileRead(PathP, "t")>>}

AppendReads ==
    {<<FileAppend(PathP, p1), FileAppend(PathP, p2), FileRead(PathP, "t")>> :
        p1 \in Payloads, p2 \in Payloads}

FilePrograms ==
    WriteReads \cup AppendReads \cup
    {<<FileRead(PathP, "t")>>,
     <<FileWrite(PathP, Str("ab")), FileWrite(PathP, Str("cd")), FileRead(PathP, "t")>>}

\* One write or append whose content is each kind of expression.
HandleContents ==
    {Num(1), Str("ab"), Binary(Num(1), "PLUS", Num(2)), ArrayLiteral(<<Num(1)>>),
     Get(ArrayLiteral(<<Num(1)>>), Num(0)), CallG, Cat(Str("a"), Str("b")),
     Call(Variable("charat"), <<Str("ab"), Num(0)>>), Call(Variable("char"), <<Num(97)>>)}

HandleProgs ==
    {<<FnG, FileWrite(PathP, c)>> : c \in HandleContents} \cup
    {<<FnG, FileAppend(PathP, c)>> : c \in HandleContents}

\* A break in a function declared in a loop, called from the loop.
BreakOutProgs ==
    {<<While(Num(1), Block(<<Function("f", <<>>, <<s>>),
                             Expression(Call(Variable("f"), <<>>)), Break>>)),
       Expression(Num(1))>> : s \in {Break, Continue, Return(Num(1))}}

\* r() returning from a block, a conditional, a loop, or by falling off
\* the end of its body, paired with the value the call yields.
CallR == Call(Variable("r"), <<>>)
RetCases ==
    {<<<<Return(Num(2))>>, 2>>,
     <<<<SetX, Block(<<Block(<<Return(Variable("x"))>>)>>)>>, 1>>,
     <<<<If(Num(1), Block(<<Return(Num(2))>>), None), Return(Num(3))>>, 2>>,
     <<<<If(Num(0), Block(<<Return(Num(2))>>), Block(<<Return(Num(3))>>))>>, 3>>,
     <<<<If(Num(0), Block(<<Return(Num(2))>>), None)>>, 0>>,
     <<<<SetX, While(Num(1), Block(<<If(Num(1), Block(<<Return(Num(2))>>), None)>>))>>, 2>>,
     <<<<SetX, While(Binary(Variable("x"), "LESS", Num(3)), Block(<<IncX>>)),
         Return(Variable("x"))>>, 3>>,
     <<<<SetX, SetY>>, 0>>,
     <<<<>>, 0>>}

ReturnProgs ==
    {<<Function("r", <<>>, rc[1]), Expression(CallR)>> : rc \in RetCases} \cup
    {<<Function("r", <<>>, rc[1]), Expression(Binary(Num(5), "PLUS", CallR))>> :
        rc \in RetCases} \cup
    {<<Function("r", <<>>, rc[1]),
       Function("h", <<>>, <<SetX, Return(Binary(CallR, "PLUS", Variable("x")))>>),
       Expression(Call(Variable("h"), <<>>))>> : rc \in RetCases}

Programs ==
    ExprProgs \cup CallExprProgs \cup ArrayProgs \cup CallProgs \cup PrintProgs \cup
    ParamProgs \cup DeclProgs \cup TopProgs \cup StrProgs \cup FilePrograms \cup
    ReturnProgs \cup HandleProgs \cup BreakOutProgs

Next ==
    \/ (phase = "init" /\ \E p \in Programs : Compile(p))
    \/ Build
    \/ ExecReg
    \/ ExecMem
    \/ ExecJump
    \/ ExecCall
    \/ ExecRet
    \/ ExecExtern
    \/ ExecByte
    \/ ExecStr
    \/ ExecFile
    \/ Fault

Spec == Init /\ [][Next]_vars


(***************************************************************************)
(* Reference semantics of expressions of the source language, used to      *)
(* state what the generated code must compute.                             *)
(***************************************************************************)
\* The quotient of x by y (y # 0) rounded toward zero, and its remainder.
Quot(x, y) ==
    CHOOSE q \in (0 - Abs(x))..Abs(x) :
        LET r == x - (q * y)
        IN  Abs(r) < Abs(y) /\ (r = 0 \/ Sign(r) = Sign(x))

Apply(op, x, y) ==
    CASE op = "PLUS" -> x + y
      [] op = "MINUS" -> x - y
      [] op = "STAR" -> x * y
      [] op = "SLASH" -> Quot(x, y)
      [] op = "PERCENT" -> x - (y * Quot(x, y))
      [] op = "EQUAL_EQUAL" -> IF x = y THEN 1 ELSE 0
      [] op = "BANG_EQUAL" -> IF x # y THEN 1 ELSE 0
      [] op = "LESS" -> IF x < y THEN 1 ELSE 0
      [] op = "GREATER" -> IF x > y THEN 1 ELSE 0
      [] op = "LESS_EQUAL" -> IF x <= y THEN 1 ELSE 0
      [] OTHER -> IF x >= y THEN 1 ELSE 0

\* The declaration of function f in the program.
Decl(f) == prog[CHOOSE i \in 1..Len(prog) : prog[i].k = "Function" /\ prog[i].name = f]

RECURSIVE Val(_)
Val(e) ==
    CASE e.k = "Num" -> e.val
      [] e.k = "Binary" -> Apply(e.op, Val(e.l), Val(e.r))
      [] e.k = "Assign" -> Val(e.e)
      [] e.k = "Call" ->
            LET body == Decl(e.callee.name).body
            IN  IF body # <<>> /\ body[1].k = "Return" THEN Val(body[1].e) ELSE 0
      [] OTHER -> 0

\* e is built from integer literals, calls without arguments of declared
\* functions that return at once or have nothing to return, and the
\* operators of ops at the root and of + - * / below it.
RECURSIVE Arith(_)
Arith(e) ==
    CASE e.k = "Num" -> TRUE
      [] e.k = "Binary" -> e.op \in ArithOps /\ Arith(e.l) /\ Arith(e.r)
      [] e.k = "Call" ->
            /\ e.args = <<>>
            /\ LET body == Decl(e.callee.name).body
               IN  \/ body # <<>> /\ body[1].k = "Return" /\ Arith(body[1].e)
                   \/ \A i \in 1..Len(body) : body[i].k \in {"Print", "Function"}
      [] OTHER -> FALSE

LastStmt == IF prog = <<>> THEN None ELSE prog[Len(prog)]

\* The program ends with the expression statement  l op r;  with op in ops.
EndsWithBinary(ops) ==
    /\ prog # <<>>
    /\ LastStmt.k = "Expression"
    /\ LastStmt.e.k = "Binary"
    /\ LastStmt.e.op \in ops
    /\ Arith(LastStmt.e.l) /\ Arith(LastStmt.e.r)

(***************************************************************************)
(* C3.  For a binary expression with operator + - * / over nested operand  *)
(* expressions, the generated code leaves in rax the integer obtained by   *)
(* applying the operator to the values of the left and right operands      *)
(* (the quotient rounded toward zero for /): the value of the left operand *)
(* survives the evaluation of the right one.                               *)
(***************************************************************************)
C3_BinaryArithmetic ==
    (phase = "done" /\ EndsWithBinary(ArithOps)) => reg["rax"] = Val(LastStmt.e)

C3_Witness ==
    /\ phase = "done"
    /\ prog = <<Expression(Binary(Num(2), "PLUS", Binary(Num(3), "STAR", Num(3))))>>
    /\ reg["rax"] = 11

(***************************************************************************)
(* C4.  For l % r (r # 0) the generated code leaves the remainder of l     *)
(* divided by r in rax.                                                    *)
(***************************************************************************)
C4_Remainder ==
    (phase = "done" /\ EndsWithBinary({"PERCENT"}) /\ Val(LastStmt.e.r) # 0)
        => reg["rax"] = Val(LastStmt.e)

(***************************************************************************)
(* C5.  For a comparison with any of == != < > <= >= the generated code    *)
(* leaves exactly 1 in rax when the comparison is true and exactly 0 when  *)
(* it is false.                                                            *)
(***************************************************************************)
C5_Comparison ==
    (phase = "done" /\ EndsWithBinary(CmpOps)) => reg["rax"] = Val(LastStmt.e)


(***************************************************************************)
(* C6.  Array literal and indexed read: reading index i of the literal     *)
(* [e0, ..., e(n-1)] yields the value of e_i, and the literal itself       *)
(* evaluates to the base pointer the allocator returned for it.            *)
(***************************************************************************)
\* The number of array literals among the first j elements.
ArraysAmong(es, j) == Cardinality({m \in 1..j : es[m].k = "ArrayLiteral"})

C6_ArrayRoundTrip ==
    (phase = "done" /\ prog # <<>> /\ LastStmt.k = "Expression") =>
        /\ LastStmt.e.k = "ArrayLiteral" => reg["rax"] = allocs[1]
        /\ (LastStmt.e.k = "Get" /\ LastStmt.e.obj.k = "ArrayLiteral") =>
              LET es == LastStmt.e.obj.elems
                  i == LastStmt.e.idx.val + 1
              IN  i \in 1..Len(es) =>
                     reg["rax"] = IF es[i].k = "ArrayLiteral"
                                  THEN allocs[1 + ArraysAmong(es, i)]
                                  ELSE Val(es[i])

C6_Witness ==
    /\ phase = "done"
    /\ LastStmt.k = "Expression"
    /\ LastStmt.e = Get(ArrayLiteral(<<Binary(Num(1), "PLUS", Num(2)), CallG>>), Num(1))
    /\ reg["rax"] = 6

(***************************************************************************)
(* C8.  At the call instruction of f(a0, ..., a(n-1)), argument i < 4 is   *)
(* in the i-th argument register, whatever the later arguments did to the  *)
(* registers; the arguments were evaluated left to right; every pushed     *)
(* value, the fifth and later ones included, has been popped.              *)
(***************************************************************************)
CallsF ==
    /\ Running
    /\ ins = CallFunc("f")
    /\ LastStmt.k = "Expression"
    /\ LastStmt.e.k = "Call"

C8_CallArguments ==
    CallsF =>
        LET args == LastStmt.e.args
        IN  /\ \A i \in 1..Len(args) : i <= 4 => reg[regs[i]] = Val(args[i])
            /\ \A i \in 1..Len(args) :
                  (/\ args[i].k = "Assign"
                   /\ \A j \in (i + 1)..Len(args) : args[j].k # "Assign")
                      => gvar[args[i].name] = Val(args[i])
            /\ reg["rsp"] = StackTop - 40 - 32

C8_Witness ==
    /\ CallsF
    /\ Len(LastStmt.e.args) = 5
    /\ LastStmt.e.args[2] = CallG
    /\ reg["rcx"] = 11 /\ reg["rdx"] = 6 /\ reg["r8"] = 13 /\ reg["r9"] = 14

(***************************************************************************)
(* C9.  Entered with rsp = 8 modulo 16, the generated program has rsp a    *)
(* multiple of 16 at every call instruction.                               *)
(***************************************************************************)
C9_AlignedAtCalls == (Running /\ ins.op = "call") => reg["rsp"] % 16 = 0


(***************************************************************************)
(* SpecLower: Compiler.compile applied to programs of function             *)
(* declarations, loops and literals.                                       *)
(***************************************************************************)
SetW == Expression(Assign("w", Num(1)))

BodyStmts ==
    {SetX, SetY, Block(<<SetZ>>),
     If(Num(1), Block(<<SetY>>), Block(<<SetW>>)),
     While(Num(0), Block(<<Block(<<SetZ>>)>>)),
     PrintStmt(Assign("z", Num(1))),
     Expression(Assign("x", Assign("y", Num(1)))),
     Function("g", <<>>, <<SetW>>)}

Bodies == UNION {[1..n -> BodyStmts] : n \in 0..MaxBody}

FuncProgs ==
    {pre \o <<Function("f", ps, b)>> \o post :
        pre \in {<<>>, <<SetX>>}, post \in {<<>>, <<SetX>>},
        ps \in {<<>>, <<"x">>, <<"y", "z">>}, b \in Bodies}

LoopStmts ==
    {Break, Continue, Block(<<Block(<<Break>>)>>),
     If(Num(1), Block(<<Break>>), None),
     If(Num(1), Block(<<Continue>>), Block(<<Break>>))}

InnerLoops == {While(Num(1), Block(<<s>>)) : s \in LoopStmts}

LoopProgs ==
    {<<While(Num(1), Block(<<s1, w, s2>>))>> :
        s1 \in LoopStmts, w \in InnerLoops, s2 \in LoopStmts} \cup
    {<<While(Num(1), Block(<<While(Num(1), Block(<<w, s1>>)), s2>>))>> :
        s1 \in LoopStmts, w \in InnerLoops, s2 \in LoopStmts} \cup
    {<<s1, w, s2>> : s1 \in LoopStmts, w \in InnerLoops, s2 \in LoopStmts}

LitStmts ==
    {PrintStmt(Str("a")), Expression(Assign("x", Str("b"))), SetY, PrintStmt(Num(1)),
     Expression(Num(2)), Expression(Bool(TRUE)), Expression(Bool(FALSE)),
     Expression(Str("a")), Expression(Nil)}

LitProgs == UNION {[1..n -> LitStmts] : n \in 0..(MaxBody + 1)}

ReadX == FileRead(Str("p"), "x")
ReadY == FileRead(Str("p"), "y")
PutStmts == {SetX, SetY, FileWrite(Str("p"), Str("a")), FileAppend(Str("p"), Variable("x"))}

\* At most one read per body, before or after another statement.
FileBodies == UNION {{<<r>>, <<s, r>>, <<r, s>>} : s \in PutStmts, r \in {ReadX, ReadY}}

FileProgs ==
    {pre \o <<Function("f", ps, b)>> :
        pre \in {<<>>, <<SetX>>}, ps \in {<<>>, <<"y">>}, b \in FileBodies} \cup FileBodies

\* Reads of a name that is a local, a parameter, a global or none of them.
ReadProgs ==
    {pre \o <<Function("f", ps, b \o <<Expression(Variable(v))>>)>> \o post :
        pre \in {<<>>, <<SetX>>, <<SetY>>}, ps \in {<<>>, <<"x">>, <<"y", "z">>},
        b \in {<<>>, <<SetX>>, <<SetZ>>}, v \in {"x", "y", "z", "w"},
        post \in {<<>>, <<Expression(Variable("x"))>>}}

\* A break or continue in a function body that is inside no loop.
FreeBreakProgs ==
    {<<Function("f", <<>>, <<s, SetX>>)>> \o post :
        s \in LoopStmts, post \in {<<>>, <<Break>>, <<Continue>>}}

\* String literals as operands and arguments; in SurplusProgs an intrinsic
\* is given one argument more than it lowers.
StrOperandProgs ==
    {<<Expression(Binary(Str("a"), "PLUS", Str("b"))), PrintStmt(Str("a"))>>,
     <<Expression(Call(Variable("strlen"), <<Str("a")>>)), Expression(Str("a"))>>,
     <<Expression(Call(Variable("f"), <<Str("b"), Str("a")>>))>>,
     <<Expression(ArrayLiteral(<<Str("a"), Str("a")>>))>>}

SurplusProgs ==
    {<<Expression(Call(Variable("strlen"), <<Str("a"), Str("b")>>))>>,
     <<Expression(Call(Variable("concat"), <<Str("a"), Str("b"), Str("a")>>)),
       PrintStmt(Str("b"))>>}

\* A function that declares g and then assigns or reads a local or a
\* parameter.
NestedProgs ==
    {<<Function("f", <<"y">>, pre \o <<Function("g", <<>>, <<SetW>>), s>>)>> :
        pre \in {<<>>, <<SetX>>},
        s \in {SetX, SetZ, Expression(Variable("x")), Expression(Variable("y"))}}

\* A function declared in a loop body.
LoopFuncProgs ==
    {<<While(Num(1), Block(<<Function("f", <<>>, <<s>>), Break>>))>> :
        s \in LoopStmts \cup InnerLoops}

LowerPrograms ==
    LoopFuncProgs \cup NestedProgs \cup StrOperandProgs \cup SurplusProgs \cup FuncProgs \cup LoopProgs \cup LitProgs \cup FileProgs \cup ReadProgs \cup FreeBreakProgs

LowerNext == phase = "init" /\ \E p \in LowerPrograms : Compile(p)

SpecLower == Init /\ [][LowerNext]_vars

Compiled == phase = "compiled"

(***************************************************************************)
(* C1.  For every function declaration, whatever the number of its locals, *)
(* the stack size of the prologue's  sub rsp, N  is a multiple of 16.      *)
(***************************************************************************)
C1_FrameSizeAligned ==
    Compiled =>
        /\ \A i \in 1..Len(compiler.frames) : compiler.frames[i].stack_size % 16 = 0
        /\ \A i \in 1..(Len(compiler.output) - 1) :
              compiler.output[i] = Mov("rbp", "rsp") =>
                 /\ compiler.output[i + 1].op = "sub_imm"
                 /\ compiler.output[i + 1].a = "rsp"
                 /\ compiler.output[i + 1].n % 16 = 0

C1_Witness ==
    /\ Compiled
    /\ \E i \in 1..Len(compiler.frames) :
          /\ Cardinality(DOMAIN compiler.frames[i].locals) = 3
          /\ compiler.frames[i].stack_size = 64
          /\ SubImm("rsp", 64) \in Range(compiler.output)

(***************************************************************************)
(* C2.  Once the scope resolver has run for a function, the local table    *)
(* has as many entries as there are distinct names assigned to anywhere in *)
(* the body (nested function bodies excluded) that are neither parameters  *)
(* nor globals at that moment.                                             *)
(***************************************************************************)
RECURSIVE AssignedIn(_)
AssignedIn(node) ==
    CASE node.k = "Assign" -> {node.name} \cup AssignedIn(node.e)
      [] node.k = "Binary" -> AssignedIn(node.l) \cup AssignedIn(node.r)
      [] node.k = "Call" ->
            AssignedIn(node.callee) \cup
            UNION {AssignedIn(node.args[i]) : i \in 1..Len(node.args)}
      [] node.k = "ArrayLiteral" ->
            UNION {AssignedIn(node.elems[i]) : i \in 1..Len(node.elems)}
      [] node.k = "Get" -> AssignedIn(node.obj) \cup AssignedIn(node.idx)
      [] node.k \in {"Expression", "Print", "Return"} -> AssignedIn(node.e)
      [] node.k = "Block" -> UNION {AssignedIn(node.body[i]) : i \in 1..Len(node.body)}
      [] node.k = "If" ->
            AssignedIn(node.cond) \cup AssignedIn(node.thn) \cup AssignedIn(node.els)
      [] node.k = "While" -> AssignedIn(node.cond) \cup AssignedIn(node.blk)
      [] OTHER -> {}

C2_LocalCount ==
    Compiled =>
        \A i \in 1..Len(compiler.frames) :
            LET fr == compiler.frames[i]
            IN  Cardinality(DOMAIN fr.locals) =
                Cardinality((AssignedIn(Block(fr.body)) \ Range(fr.params)) \ fr.globals)

(***************************************************************************)
(* C7.  In nested loops a break jumps to the end label and a continue to   *)
(* the start label of the innermost enclosing loop, also from inside       *)
(* blocks and conditionals and after an inner loop has been lowered: the   *)
(* emitted code is the one obtained by passing each statement the labels   *)
(* of its lexically enclosing loop.                                        *)
(***************************************************************************)
RECURSIVE LoopFragment(_)
LoopFragment(node) ==
    CASE node.k \in {"Break", "Continue", "None"} -> TRUE
      [] node.k = "Block" -> \A i \in 1..Len(node.body) : LoopFragment(node.body[i])
      [] node.k = "If" ->
            node.cond.k = "Num" /\ LoopFragment(node.thn) /\ LoopFragment(node.els)
      [] node.k = "While" -> node.cond.k = "Num" /\ LoopFragment(node.blk)
      [] OTHER -> FALSE

\* The expected lines of a statement lowered with label counter n inside the
\* loop whose labels are encl = <<start, end>> (<<>>: inside no loop).
RECURSIVE Lexical(_, _, _)
RECURSIVE LexicalAll(_, _, _)
LexicalAll(ss, n, encl) ==
    IF ss = <<>> THEN [out |-> <<>>, n |-> n]
    ELSE LET h == Lexical(Head(ss), n, encl)
             t == LexicalAll(Tail(ss), h.n, encl)
         IN  [out |-> h.out \o t.out, n |-> t.n]

Lexical(node, n, encl) ==
    CASE node.k = "Break" ->
            [out |-> IF encl = <<>> THEN <<>> ELSE <<JmpL(encl[2])>>, n |-> n]
      [] node.k = "Continue" ->
            [out |-> IF encl = <<>> THEN <<>> ELSE <<JmpL(encl[1])>>, n |-> n]
      [] node.k = "Block" -> LexicalAll(node.body, n, encl)
      [] node.k = "If" ->
            LET t == Lexical(node.thn, n + 2, encl)
                f == Lexical(node.els, t.n, encl)
            IN  [out |-> <<MovImm("rax", node.cond.val), CmpImm("rax", 0), JeL(n + 1)>> \o
                         t.out \o <<JmpL(n + 2), LabelL(n + 1)>> \o f.out \o
                         <<LabelL(n + 2)>>,
                 n |-> f.n]
      [] node.k = "While" ->
            LET b == Lexical(node.blk, n + 2, <<n + 1, n + 2>>)
            IN  [out |-> <<LabelL(n + 1), MovImm("rax", node.cond.val), CmpImm("rax", 0),
                           JeL(n + 2)>> \o b.out \o <<JmpL(n + 1), LabelL(n + 2)>>,
                 n |-> b.n]
      [] OTHER -> [out |-> <<>>, n |-> n]

\* The lines emitted for the statements of the program: those after the
\* header (global, externs, section, Start:, sub rsp) and before the exit.
HeaderLen == Len(Externs) + 4
Lowered == SubSeq(compiler.output, HeaderLen + 1, Len(compiler.output) - 2)

C7_InnermostLoop ==
    (Compiled /\ LoopFragment(Block(prog))) => Lowered = LexicalAll(prog, 0, <<>>).out

C7_Witness ==
    /\ Compiled
    /\ prog = <<While(Num(1), Block(<<Break,
                     While(Num(1), Block(<<Block(<<Block(<<Break>>)>>)>>)), Break>>))>>
    /\ Cardinality({i \in 1..Len(Lowered) : Lowered[i] = JmpL(2)}) = 2
    /\ Cardinality({i \in 1..Len(Lowered) : Lowered[i] = JmpL(4)}) = 1

(***************************************************************************)
(* C10.  The text returned by compile holds its sections in the order      *)
(* code (with Start), data, uninitialized data.  It does not: the text     *)
(* starts with the data section (fixed strings, then the literal pool in   *)
(* order), then the uninitialized-data section with one cell per global,   *)
(* then the code section with the entry symbol Start.                      *)
(***************************************************************************)
Pos(line) == CHOOSE i \in 1..Len(asm) : asm[i] = line

C10_CodeDataBss ==
    Compiled =>
        /\ Pos(Directive("section .text")) < Pos(Directive("section .data"))
        /\ Pos(Directive("section .data")) < Pos(Directive("section .bss"))

C10_DataBssCode ==
    Compiled =>
        LET d == Pos(Directive("section .data"))
            b == Pos(Directive("section .bss"))
            t == Pos(Directive("section .text"))
            lits == compiler.string_literals
            globals == compiler.variables
        IN  /\ d < b /\ b < t /\ t < Pos(LabelStart)
            /\ \A i \in 1..Len(FixedData) : asm[d + i] = FixedData[i]
            /\ \A i \in 1..Len(lits) :
                  asm[d + Len(FixedData) + i] = DataLine("str", i - 1, lits[i])
            /\ b = d + Len(FixedData) + Len(lits) + 1
            /\ \A i \in 1..Len(globals) : asm[b + i] = BssLine(globals[i])
            /\ \A i \in 1..Len(asm) : asm[i].op = "resq" => (b < i /\ i <= b + Len(globals))
            /\ SubSeq(asm, b + Len(globals) + 1, Len(asm)) = compiler.output

C10_Witness ==
    /\ Compiled
    /\ compiler.string_literals = <<"a", "b", "a">>
    /\ compiler.variables = <<"x">>


(***************************************************************************)
(* C17.  An assignment lowered inside a function body whose target is in   *)
(* neither the local table nor the global table aborts code generation:    *)
(* compile never completes with such an assignment in a function body.     *)
(***************************************************************************)
\* Frames of functions whose body declares no nested function: the whole
\* body is lowered with the frame's local table and the globals recorded.
HasNested(fr) == \E i \in 1..Len(fr.body) : fr.body[i].k = "Function"

Unresolved(fr) == (AssignedIn(Block(fr.body)) \ DOMAIN fr.locals) \ fr.globals

C17_UnknownTargetAborts ==
    Compiled =>
        \A i \in 1..Len(compiler.frames) :
            ~HasNested(compiler.frames[i]) => Unresolved(compiler.frames[i]) = {}

(***************************************************************************)
(* C18.  An integer literal n is lowered to a move of n into rax, true to  *)
(* a move of 1, false to a move of 0, and a string literal to a load of    *)
(* the address of its literal-pool label.                                  *)
(***************************************************************************)
C18_LiteralLowering ==
    (Compiled /\ prog # <<>> /\ prog[1].k = "Expression") =>
        LET e == prog[1].e
        IN  /\ e.k = "Num" => Lowered[1] = MovImm("rax", e.val)
            /\ e.k = "Bool" => Lowered[1] = MovImm("rax", IF e.b THEN 1 ELSE 0)
            /\ e.k = "Str" =>
                  (Lowered[1] = LeaSym("rax", "str", 0) /\ compiler.string_literals[1] = e.s)

(***************************************************************************)
(* C20.  An assignment to x lowered in the body of f stores to the global  *)
(* cell var_x if and only if x was in the global table when the lowering   *)
(* of f began; otherwise it stores to a slot of f's own frame.             *)
(***************************************************************************)
\* The lines emitted for the function of frame fr, from its entry label to
\* the label that follows its body.
FuncStart(fr) == CHOOSE i \in 1..Len(compiler.output) : compiler.output[i] = LabelFunc(fr.name)
FuncEnd(fr) ==
    CHOOSE j \in FuncStart(fr)..Len(compiler.output) :
        /\ compiler.output[j] = LabelL(compiler.output[FuncStart(fr) - 1].n)
FuncLines(fr) == {compiler.output[i] : i \in FuncStart(fr)..FuncEnd(fr)}

C20_DeclarationOrder ==
    Compiled =>
        \A i \in 1..Len(compiler.frames) :
            LET fr == compiler.frames[i]
            IN  ~HasNested(fr) =>
                   \A x \in AssignedIn(Block(fr.body)) :
                       IF x \in fr.globals
                       THEN /\ StoreVar(x, "rax") \in FuncLines(fr)
                            /\ x \notin DOMAIN fr.locals
                       ELSE /\ x \in DOMAIN fr.locals
                            /\ Store("rbp", 0 - fr.locals[x], "rax") \in FuncLines(fr)
                            /\ StoreVar(x, "rax") \notin FuncLines(fr)


(***************************************************************************)
(* C19.  The location in which a file read into t stores the buffer        *)
(* address is the location an ordinary assignment to t lowered at the same *)
(* point would store to: t's local slot if t is a local of the current     *)
(* function, otherwise t's global cell.                                    *)
(***************************************************************************)
Stores(lines, src) == {l \in lines : l.op \in {"store", "store_var"} /\ l.b = src}
Loc(l) == <<l.op, l.a, l.n>>

\* The compiler as it stands inside the body of frame fr, or at top level
\* with the given global table.
SetToSeq(S) == CHOOSE q \in [1..Cardinality(S) -> S] : Range(q) = S
Inside(fr) ==
    [NewCompiler EXCEPT !.local_scope = TRUE, !.locals = fr.locals,
                        !.variables = SetToSeq(fr.globals)]

\* Where an ordinary assignment to t lowered by c stores its value.
AssignLocs(c, t) == {Loc(l) : l \in Stores(Range(visit_Assign(c, Assign(t, Nil)).output), "rax")}

ReadsIn(ss) == {ss[j].target : j \in {i \in 1..Len(ss) : ss[i].k = "FileRead"}}

C19_ReadStoresLikeAssign ==
    Compiled =>
        /\ \A i \in 1..Len(compiler.frames) :
              LET fr == compiler.frames[i]
              IN  ~HasNested(fr) =>
                     {Loc(l) : l \in Stores(FuncLines(fr), "r13")} =
                         UNION {AssignLocs(Inside(fr), t) : t \in ReadsIn(fr.body)}
        /\ \A t \in ReadsIn(prog) :
              AssignLocs(NewCompiler, t) \subseteq {Loc(l) : l \in Stores(Range(Lowered), "r13")}

\* The rule the file read follows on its own: the local slot when t is a
\* local of the function being lowered, else the global cell.
C19_ReadRule ==
    Compiled =>
        \A i \in 1..Len(compiler.frames) :
            LET fr == compiler.frames[i]
            IN  ~HasNested(fr) =>
                   {Loc(l) : l \in Stores(FuncLines(fr), "r13")} =
                       {IF t \in DOMAIN fr.locals
                        THEN Loc(Store("rbp", 0 - fr.locals[t], "r13"))
                        ELSE Loc(StoreVar(t, "r13")) : t \in ReadsIn(fr.body)}


(***************************************************************************)
(* C11.  A program of terminating top-level statements runs each of them   *)
(* in source order and ends at the call to ExitProcess with argument 0:    *)
(* it assembles, it never crashes, and at the exit everything the          *)
(* statements print has been printed, in order.                            *)
(***************************************************************************)
RECURSIVE Printed(_)
Printed(ss) ==
    IF ss = <<>> THEN <<>>
    ELSE LET s == Head(ss)
         IN  (CASE s.k = "Print" -> <<s.e.val>>
                [] s.k = "If" -> IF s.cond.val # 0 THEN Printed(s.thn.body) ELSE <<>>
                [] OTHER -> <<>>) \o Printed(Tail(ss))

C11_RunsToExit ==
    prog \in TopProgs =>
        /\ phase \notin {"fault", "asm_error", "error"}
        /\ Running => ins.op # "ret"
        /\ phase = "done" =>
              /\ reg["rcx"] = 0
              /\ [i \in 1..Len(stdout) |-> stdout[i][2]] = Printed(prog)

(***************************************************************************)
(* C15.  The body of a function is entered only by a call of its entry     *)
(* label (or by the return of a call made from inside it): the code around *)
(* a function declaration jumps over the body.                             *)
(***************************************************************************)
\* The positions of the lines of the function whose entry label is at i: from
\* the label to the line before the label its leading jump targets.
FuncLabels == {i \in 2..Len(compiler.output) :
                  compiler.output[i].op = "label" /\ compiler.output[i].a = "func"}
BodyOf(i) ==
    LET before == compiler.output[i - 1]
        ends == {j \in i..Len(compiler.output) :
                    before.op = "jmp" /\ compiler.output[j] = LabelL(before.n)}
    IN  IF ends = {} THEN i..Len(compiler.output)
        ELSE i..((CHOOSE j \in ends : TRUE) - 1)

JumpOver ==
    phase \in {"compiled", "run", "done", "fault"} =>
        \A i \in FuncLabels :
            /\ compiler.output[i - 1].op = "jmp"
            /\ \E j \in i..Len(compiler.output) :
                  compiler.output[j] = LabelL(compiler.output[i - 1].n)

C15_BodyOnlyByCall ==
    /\ []JumpOver
    /\ [][(Running /\ phase' = "run") =>
             \A i \in FuncLabels :
                 (pc \notin BodyOf(i) /\ pc' \in BodyOf(i)) =>
                     \/ (ins.op = "call" /\ pc' = i)
                     \/ ins.op = "ret"]_vars

C15_Witness ==
    /\ phase = "done"
    /\ prog = <<Expression(Assign("x", Num(0))),
                While(Binary(Variable("x"), "LESS", Num(2)), Block(<<FnG, IncX>>)),
                Expression(CallG)>>
    /\ reg["rax"] = 6
    /\ gvar["x"] = 2

(***************************************************************************)
(* C16.  Inside f(p1, ..., pn), n <= 4, reading parameter i yields the     *)
(* value of the i-th argument of the call.                                 *)
(***************************************************************************)
C16_ParameterValue ==
    (phase = "done" /\ prog \in ParamProgs) =>
        \E i \in 1..Len(prog[1].params) :
            /\ prog[1].body[1].e.name = ParamNames[i]
            /\ reg["rax"] = Val(LastStmt.e.args[i])


(***************************************************************************)
(* SpecInterp: Interpreter.interpret applied to programs of assignments,   *)
(* blocks, prints, function declarations and calls.                        *)
(***************************************************************************)
Interpret(p) ==
    /\ phase = "init"
    /\ prog' = p
    /\ interp' = interpret(p)
    /\ phase' = "interpreted"
    /\ UNCHANGED <<compiler, pc, reg, mem, gvar, flags, brk, allocs, stdout, bytemem, fs, calls>>

\* function f(a) { { a = v; } print(a); }
FnScope(v) ==
    Function("f", <<"a">>, <<Block(<<Expression(Assign("a", Num(v)))>>),
                             PrintStmt(Variable("a"))>>)

InterpStmts ==
    {Expression(Assign("a", Num(v))) : v \in 1..2} \cup
    {Block(<<Expression(Assign("a", Num(3)))>>),
     Block(<<Expression(Assign("b", Num(1))), PrintStmt(Variable("b"))>>),
     PrintStmt(Variable("a")), PrintStmt(Num(0)),
     FnScope(2), Function("a", <<>>, <<>>),
     Expression(Call(Variable("f"), <<Num(1)>>)),
     Function("h", <<>>, <<Expression(Assign("a", Num(2))), Return(Variable("a"))>>),
     PrintStmt(Call(Variable("h"), <<>>))}

InterpProgs == UNION {[1..n -> InterpStmts] : n \in 1..(MaxBody + 1)}

InterpNext == phase = "init" /\ \E p \in InterpProgs : Interpret(p)

SpecInterp == Init /\ [][InterpNext]_vars

(***************************************************************************)
(* C14.  Interpreter assignment x = v updates the nearest binding of x     *)
(* when there is one (an assignment made in a block to an outer variable   *)
(* is visible after the block); when x is bound nowhere it defines x in    *)
(* the current environment instead of raising, so a first assignment at    *)
(* top level or in a block is readable by the next statement.              *)
(***************************************************************************)
Outs == {interp.out[i] : i \in 1..Len(interp.out)}

C14_AssignUpdatesOrDefines ==
    phase = "interpreted" =>
        \* x bound in an enclosing environment (a parameter, a function name)
        /\ prog = <<FnScope(2), Expression(Call(Variable("f"), <<Num(1)>>))>>
              => (~interp.error /\ Outs = {IntV(2)})
        /\ prog = <<Function("a", <<>>, <<>>), Block(<<Expression(Assign("a", Num(3)))>>),
                    PrintStmt(Variable("a"))>>
              => (~interp.error /\ Outs = {IntV(3)})
        \* x bound nowhere: first assignment at top level, or inside a block
        /\ (Len(prog) = 2 /\ prog[1] \in {Expression(Assign("a", Num(v))) : v \in 1..2}
              /\ prog[2] = PrintStmt(Variable("a")))
              => (~interp.error /\ Outs = {IntV(prog[1].e.e.val)})
        /\ prog = <<Block(<<Expression(Assign("b", Num(1))), PrintStmt(Variable("b"))>>)>>
              => (~interp.error /\ Outs = {IntV(1)})

\* The first half of the claim alone: the cases with x already bound.
C14_BoundCases ==
    phase = "interpreted" =>
        /\ prog = <<FnScope(2), Expression(Call(Variable("f"), <<Num(1)>>))>>
              => (~interp.error /\ Outs = {IntV(2)})
        /\ prog = <<Function("a", <<>>, <<>>), Block(<<Expression(Assign("a", Num(3)))>>),
                    PrintStmt(Variable("a"))>>
              => (~interp.error /\ Outs = {IntV(3)})


(***************************************************************************)
(* C13.  concat(a, b) evaluates to a freshly allocated buffer of           *)
(* len(a) + len(b) + 1 bytes holding the bytes of a, then the bytes of b,  *)
(* then a zero byte: the length intrinsic reports len(a) + len(b) on it    *)
(* and the character-at intrinsic returns its i-th byte.  The two operands *)
(* may themselves be concatenations.  r12 to r15 hold their prior values   *)
(* when the concatenation is finished.                                     *)
(***************************************************************************)
\* The bytes of a string expression.
RECURSIVE SVal(_)
SVal(e) ==
    IF e.k = "Str" THEN Bytes(e.s)
    ELSE SVal(e.args[1]) \o SVal(e.args[2])

IsCat(e) == e.k = "Call" /\ e.callee = Variable("concat")

C13_Concat ==
    (prog \in StrProgs /\ LastStmt.e.k = "Call") =>
        LET e == LastStmt.e
            inner == IF IsCat(e) THEN e ELSE e.args[1]
        IN  /\ (Running /\ IsCat(inner) /\ ins = CallExt("malloc")) =>
                  reg["rcx"] = Len(CStr(reg["r12"]).s) + Len(CStr(reg["r13"]).s) + 1
            /\ (phase = "done" /\ IsCat(e)) =>
                  /\ allocs # <<>> /\ reg["rax"] = allocs[Len(allocs)] /\ reg["rax"] # 0
                  /\ CStr(reg["rax"]).ok
                  /\ CStr(reg["rax"]).s = SVal(e)
            /\ (phase = "done" /\ IsCat(inner) /\ e.callee = Variable("strlen")) =>
                  reg["rax"] = Len(SVal(inner))
            /\ (phase = "done" /\ IsCat(inner) /\ e.callee = Variable("charat")
                  /\ e.args[2].val < Len(SVal(inner))) =>
                  reg["rax"] = SVal(inner)[e.args[2].val + 1]
            /\ (phase = "done" /\ IsCat(inner)) =>
                  \A r \in {"r12", "r13", "r14", "r15"} : reg[r] = Junk

C13_Witness ==
    /\ phase = "done"
    /\ prog = <<Expression(Call(Variable("charat"),
                   <<Cat(Cat(Str("a"), Str("b")), Str("cd")), Num(2)>>))>>
    /\ reg["rax"] = 99
    /\ Len(allocs) = 2

C13_WitnessNested ==
    /\ phase = "done"
    /\ prog = <<Expression(Cat(Str("cd"), Cat(Str("a"), Str("b"))))>>
    /\ CStr(reg["rax"]).s = <<99, 100, 97, 98>>

(***************************************************************************)
(* C12.  After a FileWrite of content c to a path, a FileRead of that path *)
(* binds the target variable to a zero-terminated buffer whose bytes equal *)
(* c, for every byte string c; after two FileAppend operations with        *)
(* payloads p1 then p2 on an initially empty file, a FileRead yields p1    *)
(* followed by p2.                                                         *)
(***************************************************************************)
\* The bytes of a payload: a string literal, or x bound to char(10).
Payload(e) == IF e.k = "Str" THEN Bytes(e.s) ELSE <<10>>

\* The string the read bound t to.
ReadBack == CStr(gvar["t"])

C12_FileRoundTrip ==
    phase = "done" =>
        /\ prog \in WriteReads =>
              (ReadBack.ok /\ ReadBack.s = Payload(prog[Len(prog) - 1].content))
        /\ prog \in AppendReads =>
              (ReadBack.ok /\ ReadBack.s = Payload(prog[1].content) \o Payload(prog[2].content))

\* The round trip for payloads with no percent sign and no line feed.
Plain(e) == e.k = "Str" /\ 37 \notin Range(Bytes(e.s))

C12_PlainRoundTrip ==
    phase = "done" =>
        /\ (prog \in WriteReads /\ Plain(prog[Len(prog) - 1].content)) =>
              (ReadBack.ok /\ ReadBack.s = Payload(prog[Len(prog) - 1].content))
        /\ (prog \in AppendReads /\ Plain(prog[1].content) /\ Plain(prog[2].content)) =>
              (ReadBack.ok /\ ReadBack.s = Payload(prog[1].content) \o Payload(prog[2].content))

(***************************************************************************)
(* C21.  A variable read resolves its name in the order local slot, then   *)
(* parameter slot, then global cell: inside a function a name in the local *)
(* table loads from rbp minus its offset, otherwise a name in the          *)
(* parameter table loads from rbp plus its offset, otherwise the load is   *)
(* from the global cell; outside any function every read loads from the    *)
(* global cell.                                                            *)
(***************************************************************************)
\* The offset of parameter v: 16 for the first, 8 more for each next one.
ParamOffset(ps, v) == 16 + (8 * ((CHOOSE j \in 1..Len(ps) : ps[j] = v) - 1))

\* The function of frame fr ends with the statement  v;  lowered to the
\* line just before the default epilogue.
EndsWithRead(fr) ==
    /\ fr.body # <<>>
    /\ fr.body[Len(fr.body)].k = "Expression"
    /\ fr.body[Len(fr.body)].e.k = "Variable"

C21_ReadPriority ==
    Compiled =>
        /\ \A i \in 1..Len(compiler.frames) :
              LET fr == compiler.frames[i]
                  v == fr.body[Len(fr.body)].e.name
                  line == compiler.output[FuncEnd(fr) - 5]
              IN  (~HasNested(fr) /\ EndsWithRead(fr)) =>
                     line = IF v \in DOMAIN fr.locals
                            THEN Load("rax", "rbp", 0 - fr.locals[v])
                            ELSE IF v \in Range(fr.params)
                            THEN Load("rax", "rbp", ParamOffset(fr.params, v))
                            ELSE LoadVar("rax", v)
        /\ (LastStmt.k = "Expression" /\ LastStmt.e.k = "Variable") =>
              compiler.output[Len(compiler.output) - 2] = LoadVar("rax", LastStmt.e.name)

\* A read of x, both a parameter and a local of f, declared after a global.
C21_Witness ==
    /\ Compiled
    /\ prog = <<SetY, Function("f", <<"x">>, <<SetX, Expression(Variable("x"))>>),
                Expression(Variable("x"))>>
    /\ Load("rax", "rbp", 0 - 8) \in Range(compiler.output)
    /\ LoadVar("rax", "x") \in Range(compiler.output)

(***************************************************************************)
(* C22.  Lowering a break or continue while the loop-context stack is      *)
(* empty appends no line to the instruction stream, raises no error, and   *)
(* leaves the label counter and the loop-context stack unchanged: the      *)
(* program compiles to what it compiles to with those statements removed.  *)
(***************************************************************************)
\* The statements with every break and continue that is inside no loop
\* removed.  Loops are left as they are.
RECURSIVE StripFree(_)
RECURSIVE StripFreeAll(_)
StripFreeAll(ss) ==
    IF ss = <<>> THEN <<>>
    ELSE (IF Head(ss).k \in {"Break", "Continue"} THEN <<>> ELSE <<StripFree(Head(ss))>>)
         \o StripFreeAll(Tail(ss))

StripFree(node) ==
    CASE node.k \in {"Break", "Continue"} -> Block(<<>>)
      [] node.k = "Block" -> Block(StripFreeAll(node.body))
      [] node.k = "If" -> If(node.cond, StripFree(node.thn), StripFree(node.els))
      [] node.k = "Function" -> Function(node.name, node.params, StripFreeAll(node.body))
      [] OTHER -> node

C22_FreeBreakIsNoOp ==
    (phase \in {"compiled", "error"} /\ prog \in LoopProgs \cup FreeBreakProgs) =>
        LET c == lower(StripFreeAll(prog))
        IN  /\ ~compiler.err
            /\ compiler.output = c.output
            /\ compiler.label_counter = c.label_counter
            /\ compiler.loop_stack = c.loop_stack

C22_Witness ==
    /\ Compiled
    /\ prog = <<If(Num(1), Block(<<Continue>>), Block(<<Break>>)),
                While(Num(1), Block(<<Break>>)), Break>>
    /\ StripFreeAll(prog) # prog
    /\ Cardinality({i \in 1..Len(Lowered) : Lowered[i].op = "jmp"}) = 3
    /\ compiler.label_counter = 4

(***************************************************************************)
(* C30.  The label counter increases with every call to new_label and is   *)
(* never reset during one compilation: across any sequence and nesting of  *)
(* conditionals, loops and function declarations every synthesized label   *)
(* L<n> is defined exactly once in the emitted instruction stream and      *)
(* every jump to an L<n> label targets a label defined in the module.      *)
(***************************************************************************)
\* The positions at which label L<n> is defined.
DefinedAt(n) == {i \in 1..Len(compiler.output) : compiler.output[i] = LabelL(n)}

\* The label numbers jumped to.
JumpTargets ==
    {compiler.output[i].n :
        i \in {j \in 1..Len(compiler.output) :
                  compiler.output[j].op \in {"jmp", "je"} /\ compiler.output[j].a = "L"}}

C30_LabelsUnique ==
    Compiled =>
        /\ \A n \in 1..compiler.label_counter : Cardinality(DefinedAt(n)) = 1
        /\ \A i \in 1..Len(compiler.output) :
              (compiler.output[i].op = "label" /\ compiler.output[i].a = "L") =>
                  compiler.output[i].n \in 1..compiler.label_counter
        /\ \A n \in JumpTargets : DefinedAt(n) # {}

\* A conditional and a nested function declaration inside a function.
C30_Witness ==
    /\ Compiled
    /\ Len(compiler.frames) = 2
    /\ compiler.label_counter = 4
    /\ JumpTargets = 1..4

(***************************************************************************)
(* C24.  After compiling any program, the literal pool has exactly one     *)
(* entry per string-literal expression occurrence in the AST (two          *)
(* occurrences of the same text get two labels), every pool label is       *)
(* referenced by exactly one emitted load, and the pool entries appear in  *)
(* the data section in order of occurrence.                                *)
(***************************************************************************)
\* The texts of the string literals of a node, in order of occurrence.
RECURSIVE StrOccs(_)
RECURSIVE StrOccsAll(_)
StrOccsAll(ns) == IF ns = <<>> THEN <<>> ELSE StrOccs(Head(ns)) \o StrOccsAll(Tail(ns))

StrOccs(node) ==
    CASE node.k = "Str" -> <<node.s>>
      [] node.k \in {"Assign", "Expression", "Print", "Return"} -> StrOccs(node.e)
      [] node.k = "Binary" -> StrOccs(node.l) \o StrOccs(node.r)
      [] node.k = "Call" -> StrOccs(node.callee) \o StrOccsAll(node.args)
      [] node.k = "ArrayLiteral" -> StrOccsAll(node.elems)
      [] node.k = "Get" -> StrOccs(node.obj) \o StrOccs(node.idx)
      [] node.k \in {"Block", "Function"} -> StrOccsAll(node.body)
      [] node.k = "If" -> StrOccs(node.cond) \o StrOccs(node.thn) \o StrOccs(node.els)
      [] node.k = "While" -> StrOccs(node.cond) \o StrOccs(node.blk)
      [] node.k \in {"FileWrite", "FileAppend"} -> StrOccs(node.path) \o StrOccs(node.content)
      [] node.k = "FileRead" -> StrOccs(node.path)
      [] OTHER -> <<>>

\* The positions of the loads of pool label i.
PoolRefs(i) == {j \in 1..Len(compiler.output) : compiler.output[j] = LeaSym("rax", "str", i)}

PoolInOrder ==
    /\ \A i \in 1..Len(compiler.string_literals) :
          /\ Cardinality(PoolRefs(i - 1)) = 1
          /\ asm[Pos(Directive("section .data")) + Len(FixedData) + i]
                = DataLine("str", i - 1, compiler.string_literals[i])
    /\ asm[Pos(Directive("section .data")) + Len(FixedData) + Len(compiler.string_literals) + 1]
          = Directive("section .bss")

C24_PoolPerOccurrence ==
    Compiled => (compiler.string_literals = StrOccsAll(prog) /\ PoolInOrder)

\* The same for programs in which every intrinsic gets the arguments it
\* lowers.
C24_PoolPerLoweredLiteral ==
    (Compiled /\ prog \notin SurplusProgs) =>
        (compiler.string_literals = StrOccsAll(prog) /\ PoolInOrder)

(***************************************************************************)
(* C28.  Every global cell var_<name> referenced by an instruction of the  *)
(* emitted code has a reserved cell in the uninitialized-data section of   *)
(* the same module, including names that are read but never assigned and   *)
(* names read inside a function that are neither locals nor parameters.    *)
(***************************************************************************)
\* The names read or written through a global cell.
CellRefs ==
    {compiler.output[i].b : i \in {j \in 1..Len(compiler.output) :
                                      compiler.output[j].op = "load_var"}} \cup
    {compiler.output[i].a : i \in {j \in 1..Len(compiler.output) :
                                      compiler.output[j].op = "store_var"}}

\* The names with a resq line in the rendered module.
Reserved == {x \in CellRefs : BssLine(x) \in Range(asm)}

C28_CellsReserved == Compiled => CellRefs \subseteq Reserved

\* Every cell that is written is reserved.
C28_StoredCellsReserved ==
    Compiled =>
        \A i \in 1..Len(compiler.output) :
            compiler.output[i].op = "store_var" => BssLine(compiler.output[i].a) \in Range(asm)

(***************************************************************************)
(* C26.  Lowering a function declaration nested inside another function's  *)
(* body does not disturb the enclosing function's compile-time context:    *)
(* the statements of the enclosing body that follow the nested declaration *)
(* still resolve their names to the enclosing function's local and         *)
(* parameter slots.                                                        *)
(***************************************************************************)
\* The line a last statement  x = n;  or  v;  of the body of fr is lowered
\* to under fr's own tables.
OwnSlotLine(fr) ==
    LET s == fr.body[Len(fr.body)]
        x == s.e.name
    IN  IF s.e.k = "Assign"
        THEN (IF x \in DOMAIN fr.locals THEN Store("rbp", 0 - fr.locals[x], "rax")
              ELSE StoreVar(x, "rax"))
        ELSE (IF x \in DOMAIN fr.locals THEN Load("rax", "rbp", 0 - fr.locals[x])
              ELSE IF x \in Range(fr.params)
              THEN Load("rax", "rbp", ParamOffset(fr.params, x))
              ELSE LoadVar("rax", x))

\* The body of fr declares a function and ends with an assignment of a
\* number or a read.
EndsAfterNested(fr) ==
    /\ Len(fr.body) >= 2
    /\ \E i \in 1..(Len(fr.body) - 1) : fr.body[i].k = "Function"
    /\ fr.body[Len(fr.body)].k = "Expression"
    /\ \/ fr.body[Len(fr.body)].e.k = "Variable"
       \/ (fr.body[Len(fr.body)].e.k = "Assign" /\ fr.body[Len(fr.body)].e.e.k = "Num")

C26_EnclosingContextKept ==
    Compiled =>
        \A i \in 1..Len(compiler.frames) :
            LET fr == compiler.frames[i]
            IN  EndsAfterNested(fr) => compiler.output[FuncEnd(fr) - 5] = OwnSlotLine(fr)

(***************************************************************************)
(* C27.  A break or continue inside a function body never jumps to a label *)
(* outside that function's body: when a function is declared inside a loop *)
(* body, a break or continue in the function that is not inside one of the *)
(* function's own loops emits no jump to the enclosing loop's labels.      *)
(***************************************************************************)
\* The label numbers defined between the entry label of fr and the label
\* that ends it, and those jumped to from there.
LabelsIn(fr) ==
    {compiler.output[i].n :
        i \in {j \in FuncStart(fr)..FuncEnd(fr) :
                  compiler.output[j].op = "label" /\ compiler.output[j].a = "L"}}

JumpsIn(fr) ==
    {compiler.output[i].n :
        i \in {j \in FuncStart(fr)..FuncEnd(fr) :
                  compiler.output[j].op \in {"jmp", "je"} /\ compiler.output[j].a = "L"}}

C27_JumpsStayInFunction ==
    Compiled =>
        \A i \in 1..Len(compiler.frames) :
            JumpsIn(compiler.frames[i]) \subseteq LabelsIn(compiler.frames[i])

\* The same for programs that declare no function inside a loop.
C27_JumpsStayOutsideLoops ==
    (Compiled /\ prog \notin LoopFuncProgs) =>
        \A i \in 1..Len(compiler.frames) :
            JumpsIn(compiler.frames[i]) \subseteq LabelsIn(compiler.frames[i])

(***************************************************************************)
(* C23.  A call to a function returns to the instruction after the call    *)
(* with the caller's frame pointer and stack pointer restored to their     *)
(* values at the call, whether the function returns through a return       *)
(* statement at any nesting depth (inside blocks, conditionals or loops)   *)
(* or falls off the end of its body; the accumulator then holds the value  *)
(* of the returned expression, or 0 when control falls through.            *)
(***************************************************************************)
\* The return instruction of a call in progress is executed.
Returns == Running /\ ins.op = "ret" /\ calls # <<>> /\ phase' = "run" /\ pc' # pc

C23_CallReturn ==
    /\ [][Returns =>
             /\ pc' = calls[Len(calls)].ret
             /\ reg'["rsp"] = calls[Len(calls)].rsp
             /\ reg'["rbp"] = calls[Len(calls)].rbp
             /\ compiler.output[pc' - 1].op = "call"]_vars
    /\ [](\A rc \in RetCases :
             /\ (phase = "done" /\ prog = <<Function("r", <<>>, rc[1]), Expression(CallR)>>)
                   => reg["rax"] = rc[2]
             /\ (phase = "done"
                   /\ prog = <<Function("r", <<>>, rc[1]),
                               Expression(Binary(Num(5), "PLUS", CallR))>>)
                   => reg["rax"] = 5 + rc[2])

\* A return from inside a conditional inside a loop, in the middle of an
\* expression of the caller.
C23_Witness ==
    /\ phase = "done"
    /\ prog = <<Function("r", <<>>,
                   <<SetX, While(Num(1), Block(<<If(Num(1), Block(<<Return(Num(2))>>), None)>>))>>),
                Expression(Binary(Num(5), "PLUS", CallR))>>
    /\ reg["rax"] = 7
    /\ reg["rsp"] = StackTop - 40

(***************************************************************************)
(* C29.  For a FileWrite or FileAppend statement with any content          *)
(* expression, the file handle passed to the formatted-write call and to   *)
(* the close call is the handle returned by the open call of that          *)
(* statement: the content expression does not change the register holding  *)
(* the handle.                                                             *)
(***************************************************************************)
\* The machine is about to enter fprintf or fclose.
AtHandleUse ==
    Running /\ ins.op = "call" /\ ins.a = "extern" /\ ins.b \in {"fprintf", "fclose"}

\* The handle returned by the latest successful fopen.
LastHandle == FileBase + (8 * Len(fs.open))

C29_HandleKept ==
    AtHandleUse => (fs.open # <<>> /\ reg["rcx"] = LastHandle)

\* Contents that are a literal or a variable keep the handle.
C29_PlainContentKeepsHandle ==
    (AtHandleUse /\ \A i \in 1..Len(prog) :
                       prog[i].k \in {"FileWrite", "FileAppend"}
                          => prog[i].content.k \in {"Num", "Str", "Variable"})
       => (fs.open # <<>> /\ reg["rcx"] = LastHandle)

(***************************************************************************)
(* C25.  Executing the code of any expression leaves the stack pointer     *)
(* equal to its value before it; hence the stack pointer is the same at    *)
(* every statement boundary within one function activation, and a break,   *)
(* continue or jump between statements never leaves pushed values behind.  *)
(***************************************************************************)
\* The positions in the instruction stream where a top-level statement
\* begins or the last one has ended.
TopBoundaries == {Len(lower(SubSeq(prog, 1, i)).output) - 1 : i \in 0..Len(prog)}

\* The stack pointer after the entry code of Start.
MainSp == StackTop - 40

C25_StackBalanced ==
    (Running /\ pc \in TopBoundaries) => reg["rsp"] = MainSp

\* The same for programs in which no function jumps to a label outside it.
C25_BalancedWhenJumpsStayInside ==
    (Running /\ pc \in TopBoundaries
       /\ \A i \in 1..Len(compiler.frames) :
              JumpsIn(compiler.frames[i]) \subseteq LabelsIn(compiler.frames[i]))
       => reg["rsp"] = MainSp

\* An expression statement made of a binary operation on a call has run.
C25_Witness ==
    /\ Running /\ pc = Len(compiler.output) - 1
    /\ Len(prog) = 2 /\ prog[2].k = "Expression" /\ prog[2].e.k = "Binary"
    /\ prog[2].e.r.k = "Call"
    /\ reg["rsp"] = MainSp

=============================================================================
